---- MODULE Spec2Model ----
(***************************************************************************)
(* The tree-walking evaluator of mscript (src/src/language/interpreter.ts) *)
(* as a state machine.  A run of the model is a run of interpret() on some *)
(* program: the next command is drawn nondeterministically, so the         *)
(* behaviours of the model are the executions of all programs over the     *)
(* small alphabets below.  Nested constructs (do blocks, tag calls) are    *)
(* kept on an explicit control stack, and a command result that is not     *)
(* Continue is handed upwards one construct at a time.                     *)
(***************************************************************************)
EXTENDS Integers, Sequences, FiniteSets, TLC

VARIABLES
    environmentStack,   \* state.environmentStack: slots, each a frame or a JS array hole
    heap,               \* the MArray objects (JS objects have identity: a slot holds an address)
    valueStack,         \* state.valueStack
    output,             \* state.output
    outputColumn,       \* state.outputColumn
    errors,             \* state.errors (messages)
    control,            \* the constructs being executed, innermost last
    result,             \* CommandResult being handed to the innermost construct, or "none"
    pc,                 \* "run", "done" (interpret returned), "halted" (returned by Halt), "thrown"
    steps,              \* commands executed so far
    haltExecuted        \* a `halt` command has been executed

vars == <<environmentStack, heap, valueStack, output, outputColumn, errors,
          control, result, pc, steps, haltExecuted>>

-----------------------------------------------------------------------------
(* Bounds of the model *)

MaxSteps == 4
MaxFrames == 3
MaxObjects == 2
MaxDepth == 3

-----------------------------------------------------------------------------
(* Alphabets *)

Names == {"x", "p", "q"}
Keys == {"a", "b", "1", "2", "10"}

\* Subscript lists as evaluated: the empty string is a possible subscript value.
SubscriptLists == {<<>>, <<"a">>, <<"a", "b">>, <<"">>}

\* ast.tags: name -> params (a list, or null for a tag written without parentheses)
NoParams == <<"null">>
TagParams(name) ==
    CASE name = "f" -> <<"p">>
      [] name = "g" -> <<"p", "q">>
      [] name = "h" -> NoParams
      [] OTHER -> <<>>
TagNames == {"f", "g", "h"}
CallNames == TagNames \cup {"nope"}

-----------------------------------------------------------------------------
(* MValue: a scalar, an array object (by address), or JS undefined *)

Undef == [kind |-> "undefined", s |-> "", a |-> 0]
Scalar(s) == [kind |-> "scalar", s |-> s, a |-> 0]
ArrayAt(a) == [kind |-> "array", s |-> "", a |-> a]

\* A frame maps names to values: the names of the program and the special
\* variable $TEST, which no program text can name (`$` starts a builtin).
FrameNames == Names \cup {"$TEST"}

EmptyMap == [hole |-> FALSE, vars |-> [n \in FrameNames |-> Undef]]
Hole == [hole |-> TRUE, vars |-> [n \in FrameNames |-> Undef]]

NewArray(self) == [value |-> self, children |-> [k \in Keys |-> Undef]]

mArrayGet(hp, array, key) == hp[array].children[key]

mArraySet(hp, array, key, value) == [hp EXCEPT ![array].children[key] = value]

mArrayKill(hp, array, key) == [hp EXCEPT ![array].children[key] = Undef]

mValueToScalar(hp, value) ==
    IF value.kind = "array" THEN hp[value.a].value ELSE value.s

\* `array.length = n` of JavaScript: truncates, or extends with holes.
SetLength(stack, n) ==
    [i \in 1..n |-> IF i <= Len(stack) THEN stack[i] ELSE Hole]

-----------------------------------------------------------------------------
(* References *)

\* What getReference hands back: a reference, null, undefined, or a TypeError
\* thrown while scanning; env and hp are the stack and heap it leaves behind.
Ref(kind, env, hp, frame, name, array, key) ==
    [kind |-> kind, env |-> env, hp |-> hp, frame |-> frame, name |-> name,
     array |-> array, key |-> key]

\* The scan of getReference, from slot i down to slot 1 (frame 0).  Reading
\* `.get` of a hole throws.  (The scan also returns a stored value of kind
\* ArrayReference or EnvironmentReference as it is; no code path stores one,
\* getCallArgumentReference binds the referenced value, so no slot holds one.)
RECURSIVE ScanFrames(_, _, _)
ScanFrames(env, name, i) ==
    IF i = 0 THEN [thrown |-> FALSE, found |-> FALSE, frame |-> 1]
    ELSE IF env[i].hole THEN [thrown |-> TRUE, found |-> FALSE, frame |-> i]
    ELSE IF env[i].vars[name] = Undef THEN ScanFrames(env, name, i - 1)
    ELSE [thrown |-> FALSE, found |-> TRUE, frame |-> i]

\* The subscript loop of getReference, at subscript i (1-based).
RECURSIVE Descend(_, _, _, _, _, _, _, _, _, _)
Descend(env, hp, frame, name, value, array, subscriptKey, keys, i, canCreate) ==
    IF i > Len(keys) THEN Ref("ArrayReference", env, hp, frame, name, array, subscriptKey)
    ELSE IF value.kind # "array" /\ ~canCreate
    THEN Ref("null", env, hp, frame, name, 0, "")
    ELSE LET create == value.kind # "array"
             created == ArrayAt(Len(hp) + 1)
             hp1 == IF create
                    THEN Append(hp, NewArray(IF value.kind = "undefined" THEN "" ELSE value.s))
                    ELSE hp
             hp2 == IF create /\ i > 1 THEN mArraySet(hp1, array, subscriptKey, created) ELSE hp1
             env2 == IF create /\ i = 1
                     THEN [env EXCEPT ![frame].vars[name] = created]
                     ELSE env
             value2 == IF create THEN created ELSE value
         IN IF keys[i] = ""
            THEN Ref("undefined", env2, hp2, frame, name, 0, "")
            ELSE Descend(env2, hp2, frame, name, mArrayGet(hp2, value2.a, keys[i]),
                         value2.a, keys[i], keys, i + 1, canCreate)

getReference(env, hp, name, keys, canCreate) ==
    LET scan == ScanFrames(env, name, Len(env))
        value == IF scan.found THEN env[scan.frame].vars[name] ELSE Undef
    IN IF scan.thrown THEN Ref("thrown", env, hp, 0, name, 0, "")
       ELSE IF Len(keys) = 0
       THEN Ref("EnvironmentReference", env, hp, scan.frame, name, 0, "")
       ELSE Descend(env, hp, scan.frame, name, value, 0, "", keys, 1, canCreate)

\* getReference as getVariableReference sees it: null becomes the error
\* "Variable does not exist".
VariableDoesNotExist == "Variable does not exist"

getVariableReference(env, hp, name, keys, canCreate) ==
    LET reference == getReference(env, hp, name, keys, canCreate)
    IN IF reference.kind = "null"
       THEN [reference EXCEPT !.kind = "error"]
       ELSE reference

getReferenceValue(reference) ==
    LET v == IF reference.kind = "ArrayReference"
             THEN mArrayGet(reference.hp, reference.array, reference.key)
             ELSE reference.env[reference.frame].vars[reference.name]
    IN IF v = Undef THEN Scalar("") ELSE v

\* The stack and heap after setReferenceValue(reference, value).
setReferenceValue(reference, value) ==
    IF reference.kind = "ArrayReference"
    THEN [reference EXCEPT !.hp = mArraySet(reference.hp, reference.array, reference.key, value)]
    ELSE [reference EXCEPT !.env[reference.frame].vars[reference.name] = value]

\* setVariable: kind "ok" with the new stack and heap, or the failure.
setVariable(env, hp, name, keys, value) ==
    LET startReference == getVariableReference(env, hp, name, keys, TRUE)
    IN IF startReference.kind \in {"EnvironmentReference", "ArrayReference"}
       THEN [setReferenceValue(startReference, value) EXCEPT !.kind = "ok"]
       ELSE startReference

\* interpretVariable: kind "ok" and the scalar pushed, or the failure.
interpretVariable(env, hp, name, keys) ==
    LET reference == getVariableReference(env, hp, name, keys, FALSE)
    IN IF reference.kind \in {"EnvironmentReference", "ArrayReference"}
       THEN [kind |-> "ok", value |-> mValueToScalar(reference.hp, getReferenceValue(reference))]
       ELSE [kind |-> reference.kind, value |-> ""]

-----------------------------------------------------------------------------
(* Call arguments *)

Lit(s) == [kind |-> "lit", name |-> "", keys |-> <<>>, s |-> s]
Var(name, keys) == [kind |-> "var", name |-> name, keys |-> keys, s |-> ""]
Reference(name) == [kind |-> "ref", name |-> name, keys |-> <<>>, s |-> ""]

ReferencedVariableDoesNotExist == "Referenced variable does not exist"

\* getCallArgumentReference: kind "ok" and the MValue to bind, or the failure.
getCallArgumentReference(env, hp, arg) ==
    IF arg.kind = "ref"
    THEN LET reference == getReference(env, hp, arg.name, <<>>, FALSE)
         IN IF reference.kind = "thrown"
            THEN [kind |-> "thrown", value |-> Undef, message |-> ""]
            ELSE IF reference.kind \in {"null", "undefined"}
            THEN [kind |-> "error", value |-> Undef, message |-> ReferencedVariableDoesNotExist]
            ELSE [kind |-> "ok", value |-> getReferenceValue(reference), message |-> ""]
    ELSE IF arg.kind = "lit"
    THEN [kind |-> "ok", value |-> Scalar(arg.s), message |-> ""]
    ELSE LET r == interpretVariable(env, hp, arg.name, arg.keys)
         IN [kind |-> r.kind, value |-> Scalar(r.value), message |-> VariableDoesNotExist]

Min(a, b) == IF a < b THEN a ELSE b

\* The two loops of interpretCall over the pushed frame (the last slot of env):
\* parameter i is bound to argument i, evaluated on the stack as it is then.
RECURSIVE BindArguments(_, _, _, _, _)
BindArguments(env, hp, params, args, i) ==
    IF i > Len(params) THEN [kind |-> "ok", env |-> env, message |-> ""]
    ELSE IF i > Len(args)
    THEN BindArguments([env EXCEPT ![Len(env)].vars[params[i]] = Scalar("")],
                       hp, params, args, i + 1)
    ELSE LET r == getCallArgumentReference(env, hp, args[i])
         IN IF r.kind # "ok"
            THEN [kind |-> r.kind, env |-> env, message |-> r.message]
            ELSE BindArguments([env EXCEPT ![Len(env)].vars[params[i]] = r.value],
                               hp, params, args, i + 1)

-----------------------------------------------------------------------------
(* The interpreter *)

\* String length over the alphabet of the model: "" or one code unit.
StringLength(s) == IF s = "" THEN 0 ELSE 1

Construct(kind, envLen, valueLen, hasReturnValue, name, args) ==
    [kind |-> kind, envLen |-> envLen, valueLen |-> valueLen,
     hasReturnValue |-> hasReturnValue, name |-> name, args |-> args]

Top == control[Len(control)]
Pop(seq) == SubSeq(seq, 1, Len(seq) - 1)

\* makeInterpreterState, and interpretTag(main, []) entered: main has no params.
Init ==
    /\ environmentStack = <<EmptyMap>>
    /\ heap = <<>>
    /\ valueStack = <<>>
    /\ output = <<>>
    /\ outputColumn = 0
    /\ errors = <<>>
    /\ control = <<Construct("tag", 1, 0, FALSE, "main", <<>>)>>
    /\ result = "none"
    /\ pc = "run"
    /\ steps = 0
    /\ haltExecuted = FALSE

\* interpretCommand is about to run the next command of the innermost construct.
Running == pc = "run" /\ result = "none"
CanStep == Running /\ steps < MaxSteps

\* What a command that looked up a variable leaves: kind is "ok", "error"
\* (a reported error, then Halt), "undefined" (Halt with nothing reported) or
\* "thrown" (a TypeError leaves interpret).
Outcome(kind, env, hp, message) ==
    /\ Len(hp) <= MaxObjects
    /\ environmentStack' = env
    /\ heap' = hp
    /\ errors' = IF kind = "error" THEN Append(errors, message) ELSE errors
    /\ pc' = IF kind = "thrown" THEN "thrown" ELSE pc
    /\ result' = IF kind \in {"error", "undefined"} THEN "Halt" ELSE "none"
    /\ steps' = steps + 1

\* interpretSet with one argument `name(keys)=s`, s a literal.
Set(name, keys, s) ==
    /\ CanStep
    /\ LET r == setVariable(environmentStack, heap, name, keys, Scalar(s))
       IN Outcome(r.kind, r.env, r.hp, VariableDoesNotExist)
    /\ UNCHANGED <<valueStack, output, outputColumn, control, haltExecuted>>

\* interpretWrite with one argument, the variable `name(keys)`.
Write(name, keys) ==
    /\ CanStep
    /\ LET r == interpretVariable(environmentStack, heap, name, keys)
       IN /\ Outcome(r.kind, environmentStack, heap, VariableDoesNotExist)
          /\ output' = IF r.kind = "ok" THEN Append(output, r.value) ELSE output
          /\ outputColumn' = IF r.kind = "ok"
                             THEN outputColumn + StringLength(r.value)
                             ELSE outputColumn
    /\ UNCHANGED <<valueStack, control, haltExecuted>>

NewFrame(names) ==
    [hole |-> FALSE,
     vars |-> [n \in FrameNames |-> IF n \in names THEN Scalar("") ELSE Undef]]

\* interpretNew with a non-empty list of names.
New(names) ==
    /\ CanStep
    /\ Len(environmentStack) < MaxFrames
    /\ environmentStack' = Append(environmentStack, NewFrame(names))
    /\ steps' = steps + 1
    /\ UNCHANGED <<heap, valueStack, output, outputColumn, errors, control, result, pc,
                   haltExecuted>>

\* interpretKill without arguments.
KillAll ==
    /\ CanStep
    /\ environmentStack' = <<EmptyMap>>
    /\ steps' = steps + 1
    /\ UNCHANGED <<heap, valueStack, output, outputColumn, errors, control, result, pc,
                   haltExecuted>>

\* interpretKill with one argument, the variable `name(keys)`.
Kill(name, keys) ==
    /\ CanStep
    /\ LET reference == getReference(environmentStack, heap, name, keys, FALSE)
       IN CASE reference.kind = "EnvironmentReference" ->
                 Outcome("ok", [environmentStack EXCEPT ![reference.frame].vars[name] = Undef],
                         heap, "")
            [] reference.kind = "ArrayReference" ->
                 Outcome("ok", environmentStack,
                         mArrayKill(heap, reference.array, reference.key), "")
            [] reference.kind = "null" -> Outcome("ok", environmentStack, heap, "")
            [] OTHER -> Outcome(reference.kind, environmentStack, heap, "")
    /\ UNCHANGED <<valueStack, output, outputColumn, control, haltExecuted>>

\* The `halt` command.
Halt ==
    /\ CanStep
    /\ result' = "Halt"
    /\ haltExecuted' = TRUE
    /\ steps' = steps + 1
    /\ UNCHANGED <<environmentStack, heap, valueStack, output, outputColumn, errors,
                   control, pc>>

\* interpretQuit without a return value.
Quit ==
    /\ CanStep
    /\ result' = "Quit"
    /\ steps' = steps + 1
    /\ UNCHANGED <<environmentStack, heap, valueStack, output, outputColumn, errors,
                   control, pc, haltExecuted>>

\* interpretQuit with a literal return value: the value stays on the value stack.
QuitValue(s) ==
    /\ CanStep
    /\ valueStack' = Append(valueStack, s)
    /\ result' = "Quit"
    /\ steps' = steps + 1
    /\ UNCHANGED <<environmentStack, heap, output, outputColumn, errors, control, pc,
                   haltExecuted>>

\* interpretCommand on an argumentless `do`: interpretDoBlock is entered.
DoBlock ==
    /\ CanStep
    /\ Len(control) < MaxDepth
    /\ control' = Append(control,
                         Construct("doblock", Len(environmentStack), Len(valueStack),
                                   FALSE, "", <<>>))
    /\ steps' = steps + 1
    /\ UNCHANGED <<environmentStack, heap, valueStack, output, outputColumn, errors,
                   result, pc, haltExecuted>>

\* interpretDoBlock as it would be if Quit were returned like Halt (line 796
\* taken for every result that is not Continue).
DoBlockReturnHandingQuitUp ==
    /\ pc = "run"
    /\ Top.kind = "doblock"
    /\ IF result \in {"Halt", "Quit"}
       THEN UNCHANGED <<environmentStack, result>>
       ELSE /\ environmentStack' = SetLength(environmentStack, Top.envLen)
            /\ result' = "none"
    /\ control' = Pop(control)
    /\ UNCHANGED <<heap, valueStack, output, outputColumn, errors, pc, steps, haltExecuted>>

\* interpretDoBlock leaves its loop: its children are exhausted (result "none"),
\* or a child returned Quit or Halt.  Only the Halt path skips the truncation.
DoBlockReturn ==
    /\ pc = "run"
    /\ Top.kind = "doblock"
    /\ IF result = "Halt"
       THEN UNCHANGED <<environmentStack, result>>
       ELSE /\ environmentStack' = SetLength(environmentStack, Top.envLen)
            /\ result' = "none"
    /\ control' = Pop(control)
    /\ UNCHANGED <<heap, valueStack, output, outputColumn, errors, pc, steps, haltExecuted>>

TagNotFound == "Tag not found"

\* interpretCall, up to the entry into interpretTopLevel(state, tag.index).
\* hasReturnValue: the call is `$$name(args)`, the argument of a write;
\* otherwise it is the command `do name(args)`.
Call(name, args, hasReturnValue) ==
    /\ CanStep
    /\ Len(control) < MaxDepth
    /\ IF name \notin TagNames
       THEN /\ Outcome("error", environmentStack, heap, TagNotFound)
            /\ UNCHANGED control
       ELSE IF TagParams(name) = NoParams
       THEN /\ Outcome("ok", environmentStack, heap, "")
            /\ control' = Append(control,
                                 Construct("call", Len(environmentStack), Len(valueStack),
                                           hasReturnValue, name, args))
       ELSE /\ Len(environmentStack) < MaxFrames
            /\ LET b == BindArguments(Append(environmentStack, EmptyMap), heap,
                                      TagParams(name), args, 1)
               IN /\ Outcome(b.kind, b.env, heap, b.message)
                  /\ control' = IF b.kind = "ok"
                                THEN Append(control,
                                            Construct("call", Len(environmentStack),
                                                      Len(valueStack), hasReturnValue,
                                                      name, args))
                                ELSE control
    /\ UNCHANGED <<valueStack, output, outputColumn, haltExecuted>>

\* interpretTopLevel has returned into interpretCall: it ran off the end of
\* ast.children (result "none") or a command returned Quit or Halt.  The
\* result is not looked at.  A `$$` call then hands its value to the write.
CallReturn ==
    /\ pc = "run"
    /\ Top.kind = "call"
    /\ LET values == IF Top.hasReturnValue
                     THEN IF Len(valueStack) = Top.valueLen
                          THEN Append(valueStack, "")
                          ELSE valueStack
                     ELSE SubSeq(valueStack, 1, Top.valueLen)
           value == values[Len(values)]
       IN IF Top.hasReturnValue
          THEN /\ valueStack' = Pop(values)
               /\ output' = Append(output, value)
               /\ outputColumn' = outputColumn + StringLength(value)
          ELSE /\ valueStack' = values
               /\ UNCHANGED <<output, outputColumn>>
    /\ environmentStack' = SetLength(environmentStack, Top.envLen)
    /\ result' = "none"
    /\ control' = Pop(control)
    /\ UNCHANGED <<heap, errors, pc, steps, haltExecuted>>

\* interpretTopLevel has returned into interpretTag(main), and interpret returns.
TagReturn ==
    /\ pc = "run"
    /\ Top.kind = "tag"
    /\ IF result = "Halt"
       THEN /\ pc' = "halted"
            /\ UNCHANGED <<environmentStack, valueStack>>
       ELSE /\ pc' = "done"
            /\ environmentStack' = SetLength(environmentStack, Top.envLen)
            /\ valueStack' = IF Len(valueStack) = Top.valueLen
                             THEN valueStack
                             ELSE Pop(valueStack)
    /\ control' = Pop(control)
    /\ UNCHANGED <<heap, output, outputColumn, errors, result, steps, haltExecuted>>

\* The commands the model draws from: each is one command of a program.
Variable(name, keys) == [name |-> name, keys |-> keys]

SetCommands ==
    { [name |-> "x", keys |-> <<>>, s |-> "v"],
      [name |-> "x", keys |-> <<"a">>, s |-> "w"],
      [name |-> "x", keys |-> <<"a", "b">>, s |-> "v"],
      [name |-> "x", keys |-> <<"">>, s |-> "w"],
      [name |-> "p", keys |-> <<>>, s |-> "w"],
      [name |-> "p", keys |-> <<"a">>, s |-> "v"] }

WriteCommands ==
    { Variable("x", <<>>), Variable("x", <<"a">>), Variable("x", <<"a", "b">>),
      Variable("p", <<>>) }

KillCommands == { Variable("x", <<>>), Variable("x", <<"a">>), Variable("p", <<>>) }

NewCommands == { {"x"}, {"p"} }

QuitValues == { "v" }

CallNode(name, args, hasReturnValue) ==
    [name |-> name, args |-> args, hasReturnValue |-> hasReturnValue]

CallCommands ==
    { CallNode("f", <<Reference("x")>>, FALSE),
      CallNode("f", <<Lit("v"), Lit("w")>>, FALSE),
      CallNode("f", <<Var("x", <<"a">>)>>, TRUE),
      CallNode("g", <<Lit("w"), Var("p", <<>>)>>, FALSE),
      CallNode("g", <<Var("x", <<>>)>>, FALSE),
      CallNode("h", <<>>, FALSE),
      CallNode("h", <<>>, TRUE),
      CallNode("nope", <<>>, FALSE) }

Next ==
    \/ \E c \in SetCommands : Set(c.name, c.keys, c.s)
    \/ \E c \in WriteCommands : Write(c.name, c.keys)
    \/ \E names \in NewCommands : New(names)
    \/ KillAll
    \/ \E c \in KillCommands : Kill(c.name, c.keys)
    \/ Halt
    \/ Quit
    \/ \E s \in QuitValues : QuitValue(s)
    \/ DoBlock
    \/ DoBlockReturn
    \/ \E c \in CallCommands : Call(c.name, c.args, c.hasReturnValue)
    \/ CallReturn
    \/ TagReturn

Spec == Init /\ [][Next]_vars

-----------------------------------------------------------------------------
(* What the claims speak of *)

\* The output as interpret returns it, output.join(""): a sequence of code units.
OutputText == SelectSeq(output, LAMBDA fragment : fragment # "")

NoHoles(env) == \A i \in 1..Len(env) : ~env[i].hole

\* The frames of env that contain name.
FramesBinding(env, name) ==
    {i \in 1..Len(env) : ~env[i].hole /\ env[i].vars[name] # Undef}

TopmostFrame(env, name) ==
    CHOOSE i \in FramesBinding(env, name) : \A j \in FramesBinding(env, name) : j <= i

\* The value bound to name in the topmost frame that contains it.
Binding(env, name) ==
    IF FramesBinding(env, name) = {} THEN Undef ELSE env[TopmostFrame(env, name)].vars[name]

\* The frame a write to name goes to.
WriteFrame(env, name) ==
    IF FramesBinding(env, name) = {} THEN 1 ELSE TopmostFrame(env, name)

\* The slot name(keys): Undef when the base or a level on the way is absent or a scalar.
RECURSIVE SlotBelow(_, _, _, _)
SlotBelow(hp, value, keys, i) ==
    IF i > Len(keys) THEN value
    ELSE IF value.kind # "array" THEN Undef
    ELSE SlotBelow(hp, hp[value.a].children[keys[i]], keys, i + 1)

Slot(env, hp, name, keys) == SlotBelow(hp, Binding(env, name), keys, 1)

\* The scalar a slot reads as.
ScalarOf(hp, value) ==
    CASE value.kind = "undefined" -> ""
      [] value.kind = "scalar" -> value.s
      [] OTHER -> hp[value.a].value

Read(value) == [kind |-> "ok", value |-> value]

KeyLists == {<<"a">>, <<"b">>, <<"a", "b">>, <<"b", "a">>}
AllValues == {"", "v", "w"}

-----------------------------------------------------------------------------
(* The claims *)

\* C1: once a `halt` command has executed, at any nesting depth, no further
\* command executes: the output and the variable store never change afterwards.
C1_HaltEndsProgram ==
    [][haltExecuted =>
          /\ steps' = steps
          /\ OutputText' = OutputText
          /\ heap' = heap
          /\ environmentStack'[1] = environmentStack[1]]_vars

\* C2: once a runtime error is recorded, wherever it occurs, no later command
\* runs, the output stays what it was at the error, and no second error is
\* recorded.
C2_ErrorEndsProgram ==
    [][Len(errors) > 0 =>
          /\ steps' = steps
          /\ OutputText' = OutputText
          /\ errors' = errors]_vars

\* C3: the evaluator never throws: no variable lookup meets a slot of the
\* environment stack that holds no frame.
C3_NeverThrows == pc # "thrown"

\* C4: when a do block, a tag call or interpretTag returns, by quit, by
\* fall-through or by halt, the environment stack holds exactly the frames it
\* held at entry.
C4_FramesRemovedOnExit ==
    [][Len(control') < Len(control) =>
          /\ Len(environmentStack') = Top.envLen
          /\ NoHoles(environmentStack')]_vars

\* C5: reading an unsubscripted name yields the value bound in the topmost
\* frame that contains the name, and the empty string, with no error, when no
\* frame contains it.
C5_ReadTopmostBinding ==
    Running =>
        \A name \in Names :
            interpretVariable(environmentStack, heap, name, <<>>)
                = Read(ScalarOf(heap, Binding(environmentStack, name)))

\* C6: reading a subscripted variable whose base name is unbound, or with a
\* level that is absent or a scalar, yields the empty string and no error.
C6_MissingSubscriptReadsEmpty ==
    Running =>
        \A name \in Names, keys \in KeyLists :
            Slot(environmentStack, heap, name, keys) = Undef
                => interpretVariable(environmentStack, heap, name, keys) = Read("")

\* C7: `set name=v` writes into the topmost frame that binds name, into frame
\* 0 when none does, and leaves every other frame and name unchanged.
C7_SetWritesTopmostBinding ==
    Running =>
        \A name \in Names, s \in AllValues :
            LET r == setVariable(environmentStack, heap, name, <<>>, Scalar(s))
            IN /\ r.kind = "ok"
               /\ r.hp = heap
               /\ r.env = [environmentStack EXCEPT
                             ![WriteFrame(environmentStack, name)].vars[name] = Scalar(s)]

\* C8: after `set x(k1..kn)=w`, x(k1..kn) reads w, and x and every
\* intermediate x(k1..ki) is an array node that reads as it did before (the
\* scalar it held, or the empty string if it was absent).
C8_VivificationKeepsScalar ==
    Running =>
        \A name \in Names, keys \in KeyLists, w \in AllValues :
            LET r == setVariable(environmentStack, heap, name, keys, Scalar(w))
            IN /\ r.kind = "ok"
               /\ interpretVariable(r.env, r.hp, name, keys) = Read(w)
               /\ \A i \in 0..(Len(keys) - 1) :
                     LET prefix == SubSeq(keys, 1, i)
                     IN /\ Slot(r.env, r.hp, name, prefix).kind = "array"
                        /\ interpretVariable(r.env, r.hp, name, prefix)
                              = Read(ScalarOf(heap, Slot(environmentStack, heap, name, prefix)))

\* The call being executed was entered with `.x` for parameter p, and p is
\* still the binding of the frame pushed for the call.
InCalleeOf(p, x) ==
    /\ Running
    /\ Top.kind = "call"
    /\ Len(environmentStack) = Top.envLen + 1
    /\ NoHoles(environmentStack)
    /\ \E i \in 1..Min(Len(Top.args), Len(TagParams(Top.name))) :
          /\ TagParams(Top.name)[i] = p
          /\ Top.args[i] = Reference(x)

\* C9: a write the callee makes through a parameter p that was passed `.x`, to
\* p itself or to p(k...), is visible in the caller's x after the call returns.
C9_ReferenceArgumentWrites ==
    \A p \in Names, x \in Names :
        InCalleeOf(p, x) =>
            \A keys \in {<<>>} \cup KeyLists, s \in AllValues :
                LET r == setVariable(environmentStack, heap, p, keys, Scalar(s))
                IN interpretVariable(SetLength(r.env, Top.envLen), r.hp, x, keys) = Read(s)

\* The value of a call argument where the call is written.
ArgumentValue(arg) == getCallArgumentReference(environmentStack, heap, arg)

\* The frame a call of params with args is to push.
ParameterFrame(params, args) ==
    [hole |-> FALSE,
     vars |-> [n \in Names |->
                 IF \E i \in 1..Len(params) : params[i] = n
                 THEN LET i == CHOOSE j \in 1..Len(params) : params[j] = n
                      IN IF i <= Len(args) THEN ArgumentValue(args[i]).value ELSE Scalar("")
                 ELSE Undef]]

-----------------------------------------------------------------------------
(* The same statements on a stack whose slots all hold frames *)

\* C5 fails only where the scan meets a hole.
ReadTopmostBindingOnFrames ==
    (Running /\ NoHoles(environmentStack)) =>
        \A name \in Names :
            interpretVariable(environmentStack, heap, name, <<>>)
                = Read(ScalarOf(heap, Binding(environmentStack, name)))

\* C6 as the code has it: only an absent last level reads as the empty string;
\* an unbound or scalar base, or an absent or scalar intermediate level, is
\* the error "Variable does not exist".
SubscriptReadOnFrames ==
    (Running /\ NoHoles(environmentStack)) =>
        \A name \in Names, keys \in KeyLists :
            LET parent == Slot(environmentStack, heap, name, SubSeq(keys, 1, Len(keys) - 1))
                r == interpretVariable(environmentStack, heap, name, keys)
            IN IF parent.kind = "array"
               THEN r = Read(ScalarOf(heap, Slot(environmentStack, heap, name, keys)))
               ELSE r.kind = "error"

\* C7 fails only where the scan meets a hole.
SetWritesTopmostBindingOnFrames ==
    (Running /\ NoHoles(environmentStack)) =>
        \A name \in Names, s \in AllValues :
            LET r == setVariable(environmentStack, heap, name, <<>>, Scalar(s))
            IN /\ r.kind = "ok"
               /\ r.hp = heap
               /\ r.env = [environmentStack EXCEPT
                             ![WriteFrame(environmentStack, name)].vars[name] = Scalar(s)]

\* C8 fails only where the scan meets a hole.
VivificationKeepsScalarOnFrames ==
    (Running /\ NoHoles(environmentStack)) =>
        \A name \in Names, keys \in KeyLists, w \in AllValues :
            LET r == setVariable(environmentStack, heap, name, keys, Scalar(w))
            IN /\ r.kind = "ok"
               /\ interpretVariable(r.env, r.hp, name, keys) = Read(w)
               /\ \A i \in 0..(Len(keys) - 1) :
                     LET prefix == SubSeq(keys, 1, i)
                     IN /\ Slot(r.env, r.hp, name, prefix).kind = "array"
                        /\ interpretVariable(r.env, r.hp, name, prefix)
                              = Read(ScalarOf(heap, Slot(environmentStack, heap, name, prefix)))

-----------------------------------------------------------------------------
(* Numbers *)

\* The integers the model computes with.
MaxNumeral == 50
Numerals == (0 - MaxNumeral)..MaxNumeral

\* The canonical rendering of each number.
Numeral == [n \in Numerals |-> ToString(n)]

\* A number as an MValue: s is its canonical rendering (mValueToString).
Number(n) == [kind |-> "number", s |-> Numeral[n], a |-> 0]

\* mValueToNumber of a string: the number a numeral spells; 0 for a string
\* that starts with no number (the empty string, "hi", "v").
NumeralValue ==
    [s \in {Numeral[n] : n \in Numerals} |-> CHOOSE n \in Numerals : Numeral[n] = s]

mValueToNumber(s) == IF s \in DOMAIN NumeralValue THEN NumeralValue[s] ELSE 0

-----------------------------------------------------------------------------
(* for loops *)

\* Body runs of one `for` the model follows.
MaxIterations == 6

\* interpretExpression on a literal or a variable: kind "ok" and the scalar.
interpretExpression(env, hp, node) ==
    IF node.kind = "lit"
    THEN [kind |-> "ok", value |-> node.s]
    ELSE interpretVariable(env, hp, node.name, node.keys)

\* The in-line body commands of the loops of the model.
WriteCommand(name) == [op |-> "write", name |-> name, s |-> ""]
QuitCommand == [op |-> "quit", name |-> "", s |-> ""]
\* q:name>s
QuitIfAbove(name, s) == [op |-> "quit:", name |-> name, s |-> s]
SetCommand(name, s) == [op |-> "set", name |-> name, s |-> s]

ForNode(variable, parameters, children) ==
    [variable |-> variable, parameters |-> parameters, children |-> children]

\* interpretFor at work on node: index is the parameter of the loop over
\* node.arg.parameters, phase the place inside the sweep ("start": the sweep
\* is about to be entered, "test": at the top of `while (true)` of the
\* three-expression form, "body": inside interpretChildCommands, child being
\* the next command).  ran, quit and atEntry are history: the values of the
\* variable with which the body was entered, whether a body returned Quit,
\* and the stack as it was when the for began.
ForConstruct(node, index, phase, child, incrementValue, endValue, ran, quit, atEntry) ==
    [kind |-> "for", node |-> node, index |-> index, phase |-> phase, child |-> child,
     incrementValue |-> incrementValue, endValue |-> endValue, ran |-> ran,
     quit |-> quit, atEntry |-> atEntry]

SetTop(construct) == [control EXCEPT ![Len(control)] = construct]

InFor == pc = "run" /\ Len(control) > 0 /\ Top.kind = "for"
InTag == pc = "run" /\ Len(control) > 0 /\ Top.kind = "tag"

\* What a step of a loop leaves behind when it looked up a variable; kind as
\* in Outcome.
ForOutcome(kind, env, hp, message) ==
    /\ Len(hp) <= MaxObjects
    /\ environmentStack' = env
    /\ heap' = hp
    /\ errors' = IF kind = "error" THEN Append(errors, message) ELSE errors
    /\ pc' = IF kind = "thrown" THEN "thrown" ELSE pc
    /\ result' = IF kind \in {"error", "undefined"} THEN "Halt" ELSE "none"

\* interpretCommand on a `for` with an argument: interpretFor is entered.
For(node) ==
    /\ InTag /\ CanStep
    /\ control' = Append(control,
                         ForConstruct(node, 1, "start", 1, 0, 0, <<>>, FALSE,
                                      environmentStack))
    /\ steps' = steps + 1
    /\ UNCHANGED <<environmentStack, heap, valueStack, output, outputColumn, errors,
                   result, pc, haltExecuted>>

\* The test as it would be with the limit itself excluded.
SweepEndedAtLimit(incrementValue, variableValue, endValue) ==
    \/ incrementValue < 0 /\ variableValue <= endValue
    \/ incrementValue >= 0 /\ variableValue >= endValue

\* The test of interpretForWithStartIncrementEnd that ends the sweep.
SweepEnded(incrementValue, variableValue, endValue) ==
    \/ incrementValue < 0 /\ variableValue < endValue
    \/ incrementValue >= 0 /\ variableValue > endValue

\* The kind of the first evaluation that did not yield a value, or "ok".
FirstFailure(values) ==
    IF \A i \in 1..Len(values) : values[i].kind = "ok" THEN "ok"
    ELSE values[CHOOSE i \in 1..Len(values) :
                    /\ values[i].kind # "ok"
                    /\ \A j \in 1..(i - 1) : values[j].kind = "ok"].kind

\* interpretFor calls interpretForWithStart, interpretForWithStartIncrement or
\* interpretForWithStartIncrementEnd for parameter index, up to the first test
\* (three expressions) or the first run of the body (one or two).
ForSweep ==
    /\ InFor /\ result = "none" /\ Top.phase = "start"
    /\ Top.index <= Len(Top.node.parameters)
    /\ LET expressions == Top.node.parameters[Top.index]
           n == Len(expressions)
           values == [i \in 1..n |->
                         interpretExpression(environmentStack, heap, expressions[i])]
           failure == FirstFailure(values)
           startValue == IF n = 1 THEN Scalar(values[1].value)
                         ELSE Number(mValueToNumber(values[1].value))
           r == setVariable(environmentStack, heap, Top.node.variable.name,
                            Top.node.variable.keys, startValue)
       IN IF failure # "ok"
          THEN /\ ForOutcome(failure, environmentStack, heap, VariableDoesNotExist)
               /\ UNCHANGED control
          ELSE /\ n < 3 => Len(Top.ran) < MaxIterations
               /\ ForOutcome(r.kind, r.env, r.hp, VariableDoesNotExist)
               /\ control' =
                    IF r.kind # "ok" THEN control
                    ELSE SetTop([Top EXCEPT
                           !.phase = IF n = 3 THEN "test" ELSE "body",
                           !.child = 1,
                           !.incrementValue =
                               IF n >= 2 THEN mValueToNumber(values[2].value) ELSE 0,
                           !.endValue =
                               IF n = 3 THEN mValueToNumber(values[3].value) ELSE 0,
                           !.ran = IF n = 3 THEN @ ELSE Append(@, startValue.s)])
    /\ UNCHANGED <<valueStack, output, outputColumn, steps, haltExecuted>>

\* The top of `while (true)` in interpretForWithStartIncrementEnd.
ForTest ==
    /\ InFor /\ result = "none" /\ Top.phase = "test"
    /\ LET r == interpretVariable(environmentStack, heap, Top.node.variable.name,
                                  Top.node.variable.keys)
           ended == SweepEnded(Top.incrementValue, mValueToNumber(r.value), Top.endValue)
       IN /\ (r.kind = "ok" /\ ~ended) => Len(Top.ran) < MaxIterations
          /\ ForOutcome(r.kind, environmentStack, heap, VariableDoesNotExist)
          /\ control' =
               IF r.kind # "ok" THEN control
               ELSE IF ended
               THEN SetTop([Top EXCEPT !.index = @ + 1, !.phase = "start"])
               ELSE SetTop([Top EXCEPT !.phase = "body", !.child = 1,
                                       !.ran = Append(@, r.value)])
    /\ UNCHANGED <<valueStack, output, outputColumn, steps, haltExecuted>>

\* interpretChildCommands runs the next command of the body.  The condition
\* of `q:name>s` compares a stored number with a number literal.
ForChild ==
    /\ InFor /\ result = "none" /\ Top.phase = "body"
    /\ Top.child <= Len(Top.node.children)
    /\ LET command == Top.node.children[Top.child]
           read == interpretVariable(environmentStack, heap, command.name, <<>>)
           written == setVariable(environmentStack, heap, command.name, <<>>,
                                  Scalar(command.s))
       IN CASE command.op = "write" ->
                 /\ ForOutcome(read.kind, environmentStack, heap, VariableDoesNotExist)
                 /\ output' = IF read.kind = "ok" THEN Append(output, read.value)
                              ELSE output
                 /\ outputColumn' = IF read.kind = "ok"
                                    THEN outputColumn + StringLength(read.value)
                                    ELSE outputColumn
            [] command.op = "set" ->
                 /\ ForOutcome(written.kind, written.env, written.hp, VariableDoesNotExist)
                 /\ UNCHANGED <<output, outputColumn>>
            [] command.op = "quit:" ->
                 /\ errors' = IF read.kind = "error"
                              THEN Append(errors, VariableDoesNotExist) ELSE errors
                 /\ pc' = IF read.kind = "thrown" THEN "thrown" ELSE pc
                 /\ result' =
                      IF read.kind \in {"error", "undefined"} THEN "Halt"
                      ELSE IF /\ read.kind = "ok"
                              /\ mValueToNumber(read.value) > mValueToNumber(command.s)
                      THEN "Quit"
                      ELSE "none"
                 /\ UNCHANGED <<environmentStack, heap, output, outputColumn>>
            [] OTHER ->
                 /\ result' = "Quit"
                 /\ UNCHANGED <<environmentStack, heap, errors, pc, output, outputColumn>>
    /\ control' = SetTop([Top EXCEPT !.child = @ + 1])
    /\ UNCHANGED <<valueStack, steps, haltExecuted>>

\* interpretChildCommands has returned into the sweep with Continue (the
\* children are exhausted) or Quit.  Quit, and the end of the body of a
\* one-expression sweep, make the sweep return Continue to interpretFor, which
\* goes on with the next parameter; otherwise the variable is stepped.
ForBodyEnd ==
    /\ InFor /\ Top.phase = "body"
    /\ result = "Quit" \/ (result = "none" /\ Top.child > Len(Top.node.children))
    /\ LET n == Len(Top.node.parameters[Top.index])
           r == interpretVariable(environmentStack, heap, Top.node.variable.name,
                                  Top.node.variable.keys)
           next == mValueToNumber(r.value) + Top.incrementValue
           nextVariableValue == Number(next)
           w == setVariable(environmentStack, heap, Top.node.variable.name,
                            Top.node.variable.keys, nextVariableValue)
       IN IF result = "Quit" \/ n = 1
          THEN /\ control' = SetTop([Top EXCEPT !.index = @ + 1, !.phase = "start",
                                                !.quit = (@ \/ result = "Quit")])
               /\ result' = "none"
               /\ UNCHANGED <<environmentStack, heap, errors, pc>>
          ELSE IF r.kind # "ok"
          THEN /\ ForOutcome(r.kind, environmentStack, heap, VariableDoesNotExist)
               /\ UNCHANGED control
          ELSE /\ next \in Numerals
               /\ n = 2 => Len(Top.ran) < MaxIterations
               /\ ForOutcome(w.kind, w.env, w.hp, VariableDoesNotExist)
               /\ control' =
                    IF w.kind # "ok" THEN control
                    ELSE SetTop([Top EXCEPT
                           !.phase = IF n = 3 THEN "test" ELSE "body",
                           !.child = 1,
                           !.ran = IF n = 3 THEN @ ELSE Append(@, nextVariableValue.s)])
    /\ UNCHANGED <<valueStack, output, outputColumn, steps, haltExecuted>>

\* interpretFor returns: Halt from a sweep, or Continue after the last parameter.
ForReturn ==
    /\ InFor
    /\ \/ result = "Halt"
       \/ /\ result = "none" /\ Top.phase = "start"
          /\ Top.index > Len(Top.node.parameters)
    /\ control' = Pop(control)
    /\ UNCHANGED <<environmentStack, heap, valueStack, output, outputColumn, errors,
                   result, pc, steps, haltExecuted>>

\* The for commands the model draws from: `f x=a:s:l body` with the limit a
\* literal or the variable p, and loops with several parameters.
X == Variable("x", <<>>)

CountedLoops ==
    { ForNode(X, << <<Lit(a), Lit(s), l>> >>, body) :
        a \in {"1", "3"}, s \in {"1", "2", "-1", "0"},
        l \in {Lit("2"), Var("p", <<>>)},
        body \in { <<WriteCommand("x")>>,
                   <<WriteCommand("x"), SetCommand("p", "0")>> } }

ForCommands ==
    CountedLoops \cup
    { ForNode(X, << <<Lit("1"), Lit("1"), Lit("2")>>, <<Lit("hi")>>,
                    <<Lit("2"), Lit("-1"), Lit("1")>> >>, <<WriteCommand("x")>>),
      ForNode(X, << <<Lit("1"), Lit("1"), Lit("2")>>, <<Lit("3"), Lit("1"), Lit("3")>> >>,
              <<WriteCommand("x"), QuitCommand>>),
      ForNode(X, << <<Lit("v")>>, <<Lit("w")>> >>, <<QuitCommand, WriteCommand("x")>>),
      ForNode(X, << <<Lit("1"), Lit("1")>>, <<Lit("w")>> >>,
              <<QuitIfAbove("x", "1"), WriteCommand("x")>>),
      ForNode(X, << <<Lit("1"), Lit("2")>> >>, <<WriteCommand("x")>>) }

LimitValues == {"2", "3"}

\* The programs ` [s p=..] f x=... [w x]`: the for is the first command to
\* bind x.
ForNext ==
    \/ \E s \in LimitValues : InTag /\ Set("p", <<>>, s)
    \/ \E node \in ForCommands : environmentStack[1].vars["x"] = Undef /\ For(node)
    \/ ForSweep
    \/ ForTest
    \/ ForChild
    \/ ForBodyEnd
    \/ ForReturn
    \/ InTag /\ Write("x", <<>>)
    \/ TagReturn

ForSpec == Init /\ [][ForNext]_vars

\* interpretFor runs in one piece: inside a for, the step it can take next is
\* not put off forever.
ForStep == ForSweep \/ ForTest \/ ForChild \/ ForBodyEnd \/ ForReturn

FairForSpec == ForSpec /\ WF_vars(ForStep)

-----------------------------------------------------------------------------
(* if and else *)

getSpecialVariable(env, name) == env[1].vars[name]

\* setSpecialVariable as it would be if it wrote the frame on top of the stack.
setSpecialVariableOnTop(env, name, value) == [env EXCEPT ![Len(env)].vars[name] = value]

setSpecialVariable(env, name, value) == [env EXCEPT ![1].vars[name] = value]

\* The loop of interpretIf over node.conditions from condition i on: "zero"
\* at the first condition that is 0 as a number, "pass" when none is, or the
\* kind of the evaluation that failed.
RECURSIVE CheckConditions(_, _, _, _)
CheckConditions(env, hp, conditions, i) ==
    IF i > Len(conditions) THEN "pass"
    ELSE LET r == interpretExpression(env, hp, conditions[i])
         IN IF r.kind # "ok" THEN r.kind
            ELSE IF mValueToNumber(r.value) = 0 THEN "zero"
            ELSE CheckConditions(env, hp, conditions, i + 1)

\* interpretChildCommands entered for the in-line body of an if or an else.
Children(name) ==
    Construct("children", Len(environmentStack), Len(valueStack), FALSE, name, <<>>)

\* interpretIf, up to the entry into its in-line body.
If(conditions) ==
    /\ CanStep
    /\ Len(control) < MaxDepth
    /\ LET c == CheckConditions(environmentStack, heap, conditions, 1)
       IN CASE c = "zero" ->
                 /\ Outcome("ok", setSpecialVariable(environmentStack, "$TEST", Number(0)),
                            heap, "")
                 /\ UNCHANGED control
            [] c = "pass" ->
                 /\ Outcome("ok", setSpecialVariable(environmentStack, "$TEST", Number(1)),
                            heap, "")
                 /\ control' = Append(control, Children("if"))
            [] OTHER ->
                 /\ Outcome(c, environmentStack, heap, VariableDoesNotExist)
                 /\ UNCHANGED control
    /\ UNCHANGED <<valueStack, output, outputColumn, haltExecuted>>

\* `test && mValueToNumber(test) !== 0`: undefined and the number 0 are falsy.
TestIsSet(test) == test # Undef /\ mValueToNumber(test.s) # 0

\* interpretElse, up to the entry into its in-line body.
Else ==
    /\ CanStep
    /\ Len(control) < MaxDepth
    /\ control' = IF TestIsSet(getSpecialVariable(environmentStack, "$TEST"))
                  THEN control
                  ELSE Append(control, Children("else"))
    /\ steps' = steps + 1
    /\ UNCHANGED <<environmentStack, heap, valueStack, output, outputColumn, errors,
                   result, pc, haltExecuted>>

\* interpretChildCommands returns into interpretIf or interpretElse, which
\* return its result as it is.
ChildrenReturn ==
    /\ pc = "run"
    /\ Top.kind = "children"
    /\ control' = Pop(control)
    /\ UNCHANGED <<environmentStack, heap, valueStack, output, outputColumn, errors,
                   result, pc, steps, haltExecuted>>

\* Condition lists of the model: literals and the variable x.
IfCommands ==
    { <<Lit("1")>>, <<Lit("0")>>, <<Lit("")>>, <<Var("x", <<>>)>>,
      <<Lit("1"), Var("x", <<>>)>>, <<Var("x", <<>>), Lit("2")>>, <<Lit("0"), Lit("1")>> }

TruthValues == {"0", "1"}

\* Programs of set, new, kill, if, else, write and quit commands.
IfNext ==
    \/ \E s \in TruthValues : Set("x", <<>>, s)
    \/ \E conditions \in IfCommands : If(conditions)
    \/ Else
    \/ ChildrenReturn
    \/ \E names \in NewCommands : New(names)
    \/ KillAll
    \/ Write("x", <<>>)
    \/ Quit
    \/ TagReturn

IfSpec == Init /\ [][IfNext]_vars

-----------------------------------------------------------------------------
(* Expressions: parser *)

\* A token: its kind, the text of an identifier, the value of a literal.
Token(kind, text, value) == [kind |-> kind, text |-> text, value |-> value]
Punctuation(kind) == Token(kind, "", Undef)
NumberToken(n) == Token("Number", "", Number(n))
StringToken(s) == Token("String", "", Scalar(s))
IdentifierToken(text) == Token("Identifier", text, Undef)

\* Expression nodes.
Literal(kind, value) == [kind |-> kind, value |-> value]
UnaryOpNode(op, right) == [kind |-> "UnaryOp", op |-> op, right |-> right]
BinaryOpNode(op, isNegated, left, right) ==
    [kind |-> "BinaryOp", op |-> op, isNegated |-> isNegated, left |-> left,
     right |-> right]

\* What a parse function hands back: the node and the column it stopped at,
\* or undefined (ok is FALSE) with the error it reported at that column.
Parsed(node, column) == [ok |-> TRUE, node |-> node, column |-> column, message |-> ""]
NotParsed(message, column) ==
    [ok |-> FALSE, node |-> Literal("undefined", Undef), column |-> column,
     message |-> message]

\* The operator a token stands for after a `'` (the first switch of the loop
\* of parseExpression) and without one (both switches), or "".
NegatableOp(kind) ==
    CASE kind = "ExclamationPoint" -> "Or"
      [] kind = "Ampersand" -> "And"
      [] kind = "Equals" -> "Equals"
      [] kind = "LessThan" -> "LessThan"
      [] kind = "GreaterThan" -> "GreaterThan"
      [] OTHER -> ""

BinaryOpOf(kind, isNegated) ==
    IF isNegated THEN NegatableOp(kind)
    ELSE CASE kind = "Plus" -> "Add"
           [] kind = "Minus" -> "Subtract"
           [] kind = "Asterisk" -> "Multiply"
           [] kind = "Underscore" -> "Concatenate"
           [] OTHER -> NegatableOp(kind)

UnaryOpOf(kind) ==
    CASE kind = "SingleQuote" -> "Not"
      [] kind = "Minus" -> "Minus"
      [] kind = "Plus" -> "Plus"
      [] OTHER -> ""

RECURSIVE parseExpression(_, _)
RECURSIVE parseUnaryOp(_, _)
RECURSIVE parsePrimary(_, _)
RECURSIVE ParseOperators(_, _, _)

\* parsePrimary on the tokens of one line, from column on (1-based): a
\* literal or a parenthesized expression.
parsePrimary(line, column) ==
    LET firstToken == line[column]
    IN CASE firstToken.kind \in {"String", "Number"} ->
              Parsed(Literal(firstToken.kind, firstToken.value), column + 1)
         [] firstToken.kind = "LeftParen" ->
              LET expression == parseExpression(line, column + 1)
              IN IF ~expression.ok THEN expression
                 ELSE IF line[expression.column].kind # "RightParen"
                 THEN NotParsed("Unterminated parenthesis", expression.column)
                 ELSE Parsed(expression.node, expression.column + 1)
         [] OTHER -> NotParsed("Expected an expression", column)

parseUnaryOp(line, column) ==
    LET op == UnaryOpOf(line[column].kind)
    IN IF op = "" THEN parsePrimary(line, column)
       ELSE LET right == parseUnaryOp(line, column + 1)
            IN IF ~right.ok THEN right
               ELSE Parsed(UnaryOpNode(op, right.node), right.column)

\* A loop that takes the whole rest of the expression as its right operand:
\* operators would group to the right.
ParseOperatorsToTheRight(line, left, column) ==
    LET isNegated == line[column].kind = "SingleQuote"
        at == IF isNegated THEN column + 1 ELSE column
        op == BinaryOpOf(line[at].kind, isNegated)
    IN IF op = "" THEN Parsed(left, at)
       ELSE LET right == parseExpression(line, at + 1)
            IN IF ~right.ok THEN right
               ELSE Parsed(BinaryOpNode(op, isNegated, left, right.node), right.column)

\* The `while (true)` of parseExpression, left being the node built so far.
ParseOperators(line, left, column) ==
    LET isNegated == line[column].kind = "SingleQuote"
        at == IF isNegated THEN column + 1 ELSE column
        op == BinaryOpOf(line[at].kind, isNegated)
    IN IF op = "" THEN Parsed(left, at)
       ELSE LET right == parseUnaryOp(line, at + 1)
            IN IF ~right.ok THEN right
               ELSE ParseOperators(line, BinaryOpNode(op, isNegated, left, right.node),
                                   right.column)

parseExpression(line, column) ==
    LET left == parseUnaryOp(line, column)
    IN IF ~left.ok THEN left ELSE ParseOperators(line, left.node, left.column)

-----------------------------------------------------------------------------
(* Expressions: evaluation *)

\* The UTF-16 code units of the string literals of the model.
CodeUnits(s) ==
    CASE s = "" -> <<>>
      [] s = "1" -> <<49>>
      [] s = "2" -> <<50>>
      [] s = "a" -> <<97>>
      [] s = "b" -> <<98>>
      [] s = "9" -> <<57>>
      [] s = "10" -> <<49, 48>>
      [] s = "abc" -> <<97, 98, 99>>

\* JavaScript's `<` on two strings: by code units, a proper prefix first.
RECURSIVE StringLess(_, _)
StringLess(a, b) ==
    IF b = <<>> THEN FALSE
    ELSE IF a = <<>> THEN TRUE
    ELSE IF a[1] # b[1] THEN a[1] < b[1]
    ELSE StringLess(Tail(a), Tail(b))

\* JavaScript's conversion of an operand of `<` to a number: a number is
\* itself, the empty string 0, a numeral its number, any other string NaN.
ToNumeric(value) ==
    IF value.kind = "number" THEN [nan |-> FALSE, n |-> NumeralValue[value.s]]
    ELSE IF value.s = "" THEN [nan |-> FALSE, n |-> 0]
    ELSE IF value.s \in DOMAIN NumeralValue THEN [nan |-> FALSE, n |-> NumeralValue[value.s]]
    ELSE [nan |-> TRUE, n |-> 0]

\* JavaScript's `left < right` on two scalars.
LessThan(left, right) ==
    IF left.kind = "scalar" /\ right.kind = "scalar"
    THEN StringLess(CodeUnits(left.s), CodeUnits(right.s))
    ELSE LET l == ToNumeric(left)
             r == ToNumeric(right)
         IN ~l.nan /\ ~r.nan /\ l.n < r.n

\* JavaScript's `left === right` on two scalars: the same type and value.
StrictEquals(left, right) == left.kind = right.kind /\ left.s = right.s

Boolean(b) == Number(IF b THEN 1 ELSE 0)

\* The value interpretUnaryOp pushes.
interpretUnaryOp(op, right) ==
    CASE op = "Not" -> Boolean(mValueToNumber(right.s) = 0)
      [] op = "Plus" -> Number(mValueToNumber(right.s))
      [] op = "Minus" -> Number(0 - mValueToNumber(right.s))

\* The value interpretBinaryOp pushes (the operators over integers and
\* strings; the division operators and `**` are not in the model).
interpretBinaryOp(op, isNegated, left, right) ==
    LET l == mValueToNumber(left.s)
        r == mValueToNumber(right.s)
        value ==
            CASE op = "Or" -> Boolean(l # 0 \/ r # 0)
              [] op = "And" -> Boolean(l # 0 /\ r # 0)
              [] op = "Equals" -> Boolean(StrictEquals(left, right))
              [] op = "LessThan" -> Boolean(LessThan(left, right))
              [] op = "GreaterThan" -> Boolean(LessThan(right, left))
              [] op = "Add" -> Number(l + r)
              [] op = "Subtract" -> Number(l - r)
              [] op = "Multiply" -> Number(l * r)
              [] op = "Concatenate" -> Scalar(left.s \o right.s)
    IN IF isNegated THEN Boolean(mValueToNumber(value.s) = 0) ELSE value

\* The value interpretExpression pushes for a node of literals and operators.
RECURSIVE Evaluate(_)
Evaluate(node) ==
    CASE node.kind = "UnaryOp" -> interpretUnaryOp(node.op, Evaluate(node.right))
      [] node.kind = "BinaryOp" ->
           interpretBinaryOp(node.op, node.isNegated, Evaluate(node.left),
                             Evaluate(node.right))
      [] OTHER -> node.value

\* The length of value.toString() for the value of node: a number in decimal,
\* a string literal, or a concatenation of two such texts.
NumeralLength(n) ==
    IF n < 0 THEN (IF n > 0 - 10 THEN 2 ELSE 3) ELSE IF n < 10 THEN 1 ELSE 2

RECURSIVE TextLength(_)
TextLength(node) ==
    LET value == Evaluate(node)
    IN IF value.kind = "number" THEN NumeralLength(NumeralValue[value.s])
       ELSE IF node.kind = "BinaryOp"
       THEN TextLength(node.left) + TextLength(node.right)
       ELSE Len(CodeUnits(value.s))

-----------------------------------------------------------------------------
(* A program of one `write` of an expression, parsed and then interpreted *)

End == Punctuation("TrailingWhitespace")

\* The tag main once the program is parsed: the tokens of its line and its
\* children, one `write` whose argument is the parsed expression.
Main(line, expression) ==
    [kind |-> "tag", envLen |-> 1, valueLen |-> 0, hasReturnValue |-> FALSE,
     name |-> "main", args |-> <<>>, line |-> line, children |-> <<expression>>]

Parsing == InTag /\ Len(control) = 1 /\ steps = 0 /\ "children" \notin DOMAIN Top

\* parse on the line ` w <line>`: parseWrite with one argument. A failed
\* parseExpression has reported its error and there is no tree to interpret.
parseWrite(line) ==
    /\ Parsing
    /\ LET expression == parseExpression(line, 1)
       IN IF expression.ok
          THEN /\ control' = <<Main(line, expression.node)>>
               /\ UNCHANGED <<errors, pc>>
          ELSE /\ errors' = Append(errors, expression.message)
               /\ pc' = "done"
               /\ UNCHANGED control
    /\ UNCHANGED <<environmentStack, heap, valueStack, output, outputColumn, result,
                   steps, haltExecuted>>

Parsed1 == InTag /\ Len(control) = 1 /\ "children" \in DOMAIN Top

\* interpretWrite on the parsed command: the value of the expression is
\* pushed, popped and written as a string.
interpretWrite ==
    /\ Parsed1 /\ CanStep /\ steps = 0
    /\ LET value == Evaluate(Top.children[1])
       IN /\ output' = Append(output, value.s)
          /\ outputColumn' = outputColumn + TextLength(Top.children[1])
    /\ steps' = steps + 1
    /\ UNCHANGED <<environmentStack, heap, valueStack, errors, control, result, pc,
                   haltExecuted>>

\* The literals of the lines: numbers, and strings that spell a number, that
\* spell none, and the empty string.
Operands ==
    {NumberToken(1), NumberToken(2), NumberToken(10), StringToken("1"),
     StringToken("10"), StringToken("9"), StringToken("abc"), StringToken("")}
SmallNumbers == {NumberToken(1), NumberToken(2)}
ComparisonOps == {"Equals", "LessThan", "GreaterThan"}
ArithmeticOps == {"Plus", "Minus", "Asterisk"}
BinaryOps == ComparisonOps \cup ArithmeticOps \cup {"Underscore"}
UnaryOps == {"SingleQuote", "Plus", "Minus"}

\* `a op b`
Line2(a, op, b) == <<a, Punctuation(op), b, End>>
\* `a op1 b op2 c`
Line3(a, op1, b, op2, c) == <<a, Punctuation(op1), b, Punctuation(op2), c, End>>
\* `a op1 (b op2 c)`
LineParen(a, op1, b, op2, c) ==
    <<a, Punctuation(op1), Punctuation("LeftParen"), b, Punctuation(op2), c,
      Punctuation("RightParen"), End>>
\* `u a op b` and `a op u b`
LineUnaryLeft(u, a, op, b) == <<Punctuation(u), a, Punctuation(op), b, End>>
LineUnaryRight(a, op, u, b) == <<a, Punctuation(op), Punctuation(u), b, End>>
\* `a op` and `a op1 (b op2 c`
LineNoOperand(a, op) == <<a, Punctuation(op), End>>
LineNoParen(a, op1, b, op2, c) ==
    <<a, Punctuation(op1), Punctuation("LeftParen"), b, Punctuation(op2), c, End>>

ExpressionLines ==
    {Line2(a, op, b) : a \in Operands, op \in ComparisonOps, b \in Operands}
    \cup {Line3(a, op[1], b, op[2], c) :
            a \in SmallNumbers, b \in SmallNumbers, c \in SmallNumbers,
            op \in BinaryOps \X BinaryOps}
    \cup {LineParen(a, op[1], b, op[2], c) :
            a \in SmallNumbers, b \in SmallNumbers, c \in SmallNumbers,
            op \in BinaryOps \X BinaryOps}
    \cup {LineUnaryLeft(u, a, op, b) :
            u \in UnaryOps, a \in SmallNumbers, b \in SmallNumbers,
            op \in ComparisonOps \cup ArithmeticOps}
    \cup {LineUnaryRight(a, op, u, b) :
            u \in UnaryOps, a \in SmallNumbers, b \in SmallNumbers,
            op \in ComparisonOps \cup ArithmeticOps}
    \cup {LineNoOperand(a, op) : a \in SmallNumbers, op \in BinaryOps}
    \cup {LineNoParen(NumberToken(1), "Plus", b, "Asterisk", NumberToken(2)) : b \in SmallNumbers}

ExpressionNext ==
    \/ \E line \in ExpressionLines : parseWrite(line)
    \/ interpretWrite
    \/ TagReturn

ExpressionSpec == Init /\ [][ExpressionNext]_vars

-----------------------------------------------------------------------------
(* Commands: the choice of the body parser by name *)

\* commandBodyVariants: the names, in order, as sequences of characters.
commandBodyVariants ==
    << <<"w", "r", "i", "t", "e">>, <<"q", "u", "i", "t">>, <<"d", "o">>,
       <<"i", "f">>, <<"e", "l", "s", "e">>, <<"f", "o", "r">>, <<"s", "e", "t">>,
       <<"n", "e", "w">>, <<"k", "i", "l", "l">>, <<"m", "e", "r", "g", "e">>,
       <<"h", "a", "l", "t">> >>

\* String.prototype.toLowerCase on the characters of the model.
LowerCaseOf(c) ==
    CASE c = "W" -> "w" [] c = "R" -> "r" [] c = "Q" -> "q" [] c = "E" -> "e"
      [] c = "F" -> "f" [] c = "O" -> "o" [] c = "H" -> "h" [] c = "A" -> "a"
      [] c = "X" -> "x"
      [] OTHER -> c
toLowerCase(text) == [i \in 1..Len(text) |-> LowerCaseOf(text[i])]

\* A test that looks at the first character only.
startsWithFirstCharacterOf(name, prefix) == name[1] = prefix[1]

\* String.prototype.startsWith
startsWith(name, prefix) ==
    Len(prefix) <= Len(name) /\ SubSeq(name, 1, Len(prefix)) = prefix

\* What the body parsers do is not in this model: a parser either hands back
\* a body or has reported an error; parseHalt always hands back a body.
BodyError == "Expected an expression"
HaltName == commandBodyVariants[11]

\* The loop of parseCommand over commandBodyVariants from variant i on:
\* called lists the parsers called so far, body is the body parsed last
\* (<<>> for undefined); parses tells whether the parsers hand back a body.
RECURSIVE ChooseBody(_, _, _, _, _)
ChooseBody(lowerCaseName, parses, i, called, body) ==
    IF i > Len(commandBodyVariants)
    THEN [returned |-> FALSE, called |-> called, body |-> body]
    ELSE LET name == commandBodyVariants[i]
         IN IF startsWith(name, lowerCaseName)
            THEN IF parses \/ name = HaltName
                 THEN ChooseBody(lowerCaseName, parses, i + 1, Append(called, name), name)
                 ELSE [returned |-> TRUE, called |-> Append(called, name), body |-> <<>>]
            ELSE ChooseBody(lowerCaseName, parses, i + 1, called, body)

\* The tag main once parseCommand has run on its only command.
Command(text, condition, called, body) ==
    [kind |-> "tag", envLen |-> 1, valueLen |-> 0, hasReturnValue |-> FALSE,
     name |-> "main", args |-> <<>>, nameToken |-> text, condition |-> condition,
     called |-> called, body |-> body]

\* parseCommand on an identifier: condition is "none", "parsed" or "failed"
\* (a post-condition after a colon), space tells whether whitespace follows,
\* parses whether the body parsers succeed, spaceAfter whether whitespace
\* follows the body.
parseCommand(text, condition, space, parses, spaceAfter) ==
    /\ control = <<Construct("tag", 1, 0, FALSE, "main", <<>>)>>
    /\ pc = "run" /\ steps = 0
    /\ LET chosen == ChooseBody(toLowerCase(text), parses, 1, <<>>, <<>>)
           failed(message, called) ==
               /\ errors' = Append(errors, message)
               /\ control' = <<Command(text, condition, called, <<>>)>>
               /\ pc' = "done"
       IN IF condition = "failed" THEN failed("Expected an expression", <<>>)
          ELSE IF ~space
          THEN failed("Expected space between command and arguments", <<>>)
          ELSE IF chosen.returned THEN failed(BodyError, chosen.called)
          ELSE IF chosen.body = <<>>
          THEN failed("Unrecognized command name", chosen.called)
          ELSE IF ~spaceAfter
          THEN failed("Expected space between arguments and next commands",
                      chosen.called)
          ELSE /\ control' = <<Command(text, condition, chosen.called, chosen.body)>>
               /\ UNCHANGED <<errors, pc>>
    /\ UNCHANGED <<environmentStack, heap, valueStack, output, outputColumn, result,
                   steps, haltExecuted>>

\* The non-empty prefixes of a name.
Prefixes(name) == {SubSeq(name, 1, k) : k \in 1..Len(name)}

\* The identifiers of the model: every prefix of every name, some of them in
\* upper case, and identifiers that are a prefix of no name.
Identifiers ==
    UNION {Prefixes(commandBodyVariants[i]) : i \in 1..Len(commandBodyVariants)}
    \cup {<<"W">>, <<"W", "R", "i", "t", "e">>, <<"Q">>, <<"E">>, <<"F", "O", "R">>,
          <<"H">>, <<"h", "A", "l", "t">>}
    \cup {<<"x">>, <<"X">>, <<"w", "x">>, <<"w", "r", "i", "t", "e", "s">>,
          <<"w", "i">>, <<"e", "l", "f">>, <<"i", "s">>, <<"d", "o", "o">>,
          <<"s", "e", "e">>, <<"n", "o">>, <<"k", "i", "l", "n">>,
          <<"h", "a", "l", "t", "s">>, <<"r", "i", "t", "e">>, <<"u">>}

CommandNext ==
    \E text \in Identifiers, condition \in {"none", "parsed", "failed"},
       space \in BOOLEAN, parses \in BOOLEAN, spaceAfter \in BOOLEAN :
        parseCommand(text, condition, space, parses, spaceAfter)

CommandSpec == Init /\ [][CommandNext]_vars

-----------------------------------------------------------------------------
(* Programs of several lines: parseTopLevel and parseBlock *)

MaxLines == 3

\* A line `tag w <tokens>`: tag is the name at the start of the line, or ""
\* for a line that starts with whitespace.
ProgramLine(tag, tokens) == [tag |-> tag, tokens |-> tokens]

\* What parse hands back: the tree (ok is FALSE for undefined) and the errors.
ParserResult(ok, children, tags, errs) ==
    [ok |-> ok, children |-> children, tags |-> tags, errors |-> errs]

\* The loops of parseTopLevel and parseBlock from line i on, one command on a
\* line: a command that fails to parse makes parseBlock, and with it
\* parseTopLevel, return undefined.
RECURSIVE parseTopLevel(_, _, _, _, _)
parseTopLevel(lines, i, children, tags, errs) ==
    IF i > Len(lines) THEN ParserResult(TRUE, children, tags, errs)
    ELSE LET expression == parseExpression(lines[i].tokens, 1)
             name == lines[i].tag
         IN IF ~expression.ok
            THEN ParserResult(FALSE, <<>>, {}, Append(errs, expression.message))
            ELSE parseTopLevel(lines, i + 1, Append(children, expression.node),
                               IF name = "" \/ \E tag \in tags : tag.name = name
                               THEN tags
                               ELSE tags \cup {[name |-> name, index |-> Len(children)]},
                               errs)

\* The tag main once parse has run: the lines of the program and the tree.
Program(lines, ast) ==
    [kind |-> "tag", envLen |-> 1, valueLen |-> 0, hasReturnValue |-> FALSE,
     name |-> "main", args |-> <<>>, lines |-> lines, ast |-> ast]

\* parse on the lines of a program; without a tree nothing is interpreted.
parse(lines) ==
    /\ control = <<Construct("tag", 1, 0, FALSE, "main", <<>>)>>
    /\ pc = "run" /\ steps = 0 /\ errors = <<>>
    /\ LET ast == parseTopLevel(lines, 1, <<>>, {}, <<>>)
       IN /\ control' = <<Program(lines, ast)>>
          /\ errors' = ast.errors
          /\ pc' = IF ast.ok THEN pc ELSE "done"
    /\ UNCHANGED <<environmentStack, heap, valueStack, output, outputColumn, result,
                   steps, haltExecuted>>

ProgramParsed == Len(control) = 1 /\ "ast" \in DOMAIN Top

\* The index interpretTag starts from: that of the tag main, or 0.
StartIndex(tags) ==
    IF \E tag \in tags : tag.name = "main"
    THEN (CHOOSE tag \in tags : tag.name = "main").index
    ELSE 0

\* interpretTopLevel runs the next child, a `write` of an expression; steps
\* counts the children run.
interpretChild ==
    /\ ProgramParsed /\ pc = "run"
    /\ StartIndex(Top.ast.tags) + steps < Len(Top.ast.children)
    /\ LET node == Top.ast.children[StartIndex(Top.ast.tags) + steps + 1]
       IN /\ output' = Append(output, Evaluate(node).s)
          /\ outputColumn' = outputColumn + TextLength(node)
    /\ steps' = steps + 1
    /\ UNCHANGED <<environmentStack, heap, valueStack, errors, control, result, pc,
                   haltExecuted>>

\* interpretTopLevel has run the last child: interpretTag returns.
interpretReturn ==
    /\ ProgramParsed /\ pc = "run"
    /\ StartIndex(Top.ast.tags) + steps >= Len(Top.ast.children)
    /\ pc' = "done"
    /\ UNCHANGED <<environmentStack, heap, valueStack, output, outputColumn, errors,
                   control, result, steps, haltExecuted>>

\* ` w 2`, ` w 1+2`, and the faulty ` w 1+` and ` w 1+(2*2`.
GoodTokens ==
    {<<NumberToken(2), End>>, Line2(NumberToken(1), "Plus", NumberToken(2))}
BadTokens ==
    {LineNoOperand(NumberToken(1), "Plus"),
     LineNoParen(NumberToken(1), "Plus", NumberToken(2), "Asterisk", NumberToken(2))}
TagsOfLines == {"", "f", "main"}
ProgramLines ==
    {ProgramLine(tag, tokens) : tag \in TagsOfLines, tokens \in GoodTokens \cup BadTokens}
Programs == UNION {[1..n -> ProgramLines] : n \in 1..MaxLines}

ParseNext ==
    \/ \E lines \in Programs : parse(lines)
    \/ interpretChild
    \/ interpretReturn

ParseSpec == Init /\ [][ParseNext]_vars

-----------------------------------------------------------------------------
(* merge *)

MaxMergeObjects == 7

\* mValueCopy: a scalar is itself; an array is a new object with the same
\* value whose children are copies, made key by key.
RECURSIVE mValueCopy(_, _)
RECURSIVE CopyChildren(_, _, _, _)
CopyChildren(hp, from, to, keys) ==
    IF keys = {} THEN hp
    ELSE LET key == CHOOSE k \in keys : TRUE
             child == hp[from].children[key]
             copy == mValueCopy(hp, child)
         IN CopyChildren(IF child = Undef THEN hp
                         ELSE mArraySet(copy.hp, to, key, copy.value),
                         from, to, keys \ {key})

mValueCopy(hp, value) ==
    IF value.kind # "array" THEN [hp |-> hp, value |-> value]
    ELSE LET to == Len(hp) + 1
         IN [hp |-> CopyChildren(Append(hp, NewArray(hp[value.a].value)), value.a, to,
                                 Keys),
             value |-> ArrayAt(to)]

\* The loop of interpretMerge over source.children: the child of destination
\* at each key of source becomes a copy of the child of source.
RECURSIVE MergeChildren(_, _, _, _)
MergeChildren(hp, source, destination, keys) ==
    IF keys = {} THEN hp
    ELSE LET key == CHOOSE k \in keys : TRUE
             child == hp[source].children[key]
             copy == mValueCopy(hp, child)
         IN MergeChildren(IF child = Undef THEN hp
                          ELSE mArraySet(copy.hp, destination, key, copy.value),
                          source, destination, keys \ {key})

CannotMergeOverlapping == "Cannot merge overlapping variables"

\* doVariablesOverlap of interpretMerge.
doVariablesOverlap(left, right) ==
    /\ left.name = right.name
    /\ \A i \in 1..Min(Len(left.keys), Len(right.keys)) : left.keys[i] = right.keys[i]

\* What interpretMerge leaves: kind as in Outcome, the stack and the heap.
MergeResult(kind, env, hp, message) ==
    [kind |-> kind, env |-> env, hp |-> hp, message |-> message]

\* The destination made an array: a scalar (or nothing) found at the
\* reference becomes a new array with that value, stored at the reference.
Promoted(destinationReference) ==
    LET found == getReferenceValue(destinationReference)
        created == ArrayAt(Len(destinationReference.hp) + 1)
    IN IF found.kind = "array"
       THEN [env |-> destinationReference.env, hp |-> destinationReference.hp,
             destination |-> found]
       ELSE [setReferenceValue(
                 [destinationReference EXCEPT
                      !.hp = Append(destinationReference.hp, NewArray(found.s))],
                 created)
             EXCEPT !.kind = "ok"] @@ [destination |-> created]

\* interpretMerge from the source reference on.
MergeFrom(promoted, sourceReference) ==
    IF sourceReference.kind \notin {"EnvironmentReference", "ArrayReference"}
    THEN MergeResult(sourceReference.kind, sourceReference.env, sourceReference.hp,
                     VariableDoesNotExist)
    ELSE IF getReferenceValue(sourceReference).kind # "array"
    THEN MergeResult("ok", promoted.env, promoted.hp, "")
    ELSE MergeResult("ok", promoted.env,
                     MergeChildren(promoted.hp, getReferenceValue(sourceReference).a,
                                   promoted.destination.a, Keys), "")

\* interpretMerge from the destination reference on.
MergeInto(destinationReference, right) ==
    IF destinationReference.kind \notin {"EnvironmentReference", "ArrayReference"}
    THEN MergeResult(destinationReference.kind, destinationReference.env,
                     destinationReference.hp, VariableDoesNotExist)
    ELSE MergeFrom(Promoted(destinationReference),
                   getVariableReference(Promoted(destinationReference).env,
                                        Promoted(destinationReference).hp,
                                        right.name, right.keys, FALSE))

interpretMerge(env, hp, left, right) ==
    IF doVariablesOverlap(left, right)
    THEN MergeResult("error", env, hp, CannotMergeOverlapping)
    ELSE MergeInto(getVariableReference(env, hp, left.name, left.keys, TRUE), right)

\* What a command of a program with merges leaves behind; kind as in Outcome.
MergeOutcome(kind, env, hp, message) ==
    /\ Len(hp) <= MaxMergeObjects
    /\ environmentStack' = env
    /\ heap' = hp
    /\ errors' = IF kind = "error" THEN Append(errors, message) ELSE errors
    /\ pc' = IF kind = "thrown" THEN "thrown" ELSE pc
    /\ result' = IF kind \in {"error", "undefined"} THEN "Halt" ELSE "none"
    /\ steps' = steps + 1

\* interpretMerge on `merge left=right`, both with literal subscripts.
Merge(left, right) ==
    /\ CanStep
    /\ LET r == interpretMerge(environmentStack, heap, left, right)
       IN MergeOutcome(r.kind, r.env, r.hp, r.message)
    /\ UNCHANGED <<valueStack, output, outputColumn, control, haltExecuted>>

\* interpretSet with one argument `name(keys)=s`, in a program with merges.
SetBeforeMerge(name, keys, s) ==
    /\ CanStep
    /\ LET r == setVariable(environmentStack, heap, name, keys, Scalar(s))
       IN MergeOutcome(r.kind, r.env, r.hp, VariableDoesNotExist)
    /\ UNCHANGED <<valueStack, output, outputColumn, control, haltExecuted>>

\* The programs: sets of x (to "v") and of p (to "w") at one and two
\* subscripts, and merges between x and p and within x.
MergeKeyLists == {<<"a">>, <<"b">>, <<"a", "a">>, <<"a", "b">>}
MergeSets ==
    {[name |-> "x", keys |-> keys, s |-> "v"] : keys \in MergeKeyLists}
    \cup {[name |-> "p", keys |-> keys, s |-> "w"] : keys \in MergeKeyLists}
MergeCommands ==
    {<<Variable("x", <<>>), Variable("p", <<>>)>>,
     <<Variable("x", <<"a">>), Variable("p", <<>>)>>,
     <<Variable("x", <<>>), Variable("p", <<"a">>)>>,
     <<Variable("x", <<"b">>), Variable("x", <<"a">>)>>,
     <<Variable("x", <<"a", "b">>), Variable("x", <<"a", "a">>)>>,
     <<Variable("x", <<>>), Variable("x", <<"a">>)>>,
     <<Variable("x", <<"a", "b">>), Variable("x", <<"a">>)>>,
     <<Variable("x", <<"a">>), Variable("x", <<"a">>)>>,
     <<Variable("p", <<>>), Variable("p", <<>>)>>}

MergeNext ==
    \/ \E c \in MergeSets : SetBeforeMerge(c.name, c.keys, c.s)
    \/ \E c \in MergeCommands : Merge(c[1], c[2])
    \/ TagReturn

MergeSpec == Init /\ [][MergeNext]_vars

\* Programs with merges in which main also calls the tag h, which has no
\* parameters, and writes x.
MergeCallNext ==
    \/ MergeNext
    \/ Call("h", <<>>, FALSE)
    \/ CallReturn
    \/ Write("x", <<>>)

MergeCallSpec == Init /\ [][MergeCallNext]_vars

-----------------------------------------------------------------------------
(* Builtins on strings: $F and $E *)

MaxText == 4
MaxNeedle == 3

\* Strings as sequences of code units.
Texts(alphabet, n) == UNION {[1..k -> alphabet] : k \in 0..n}

\* mValueToNumber on such a string: the number its leading digits spell, 0
\* when it starts with none (the alphabet has no sign and no point).
IsDigit(c) == c \in {"0", "1", "2", "3", "4", "5", "6", "7", "8", "9"}
DigitValue(c) ==
    CASE c = "0" -> 0 [] c = "1" -> 1 [] c = "2" -> 2 [] c = "3" -> 3 [] c = "4" -> 4
      [] c = "5" -> 5 [] c = "6" -> 6 [] c = "7" -> 7 [] c = "8" -> 8 [] c = "9" -> 9
RECURSIVE LeadingNumber(_, _, _)
LeadingNumber(text, i, n) ==
    IF i > Len(text) \/ ~IsDigit(text[i]) THEN n
    ELSE LeadingNumber(text, i + 1, 10 * n + DigitValue(text[i]))
TextToNumber(text) == LeadingNumber(text, 1, 0)

Max(a, b) == IF a > b THEN a ELSE b

\* The tag main of a program of one command, loaded by makeInterpreterState.
Loaded(command) ==
    [kind |-> "tag", envLen |-> 1, valueLen |-> 0, hasReturnValue |-> FALSE,
     name |-> "main", args |-> <<>>, children |-> <<command>>]

\* The state after makeInterpreterState(ast) for a program of one command
\* out of commands, interpretTag(main, []) entered.
LoadedInit(commands) ==
    /\ environmentStack = <<EmptyMap>>
    /\ heap = <<>>
    /\ valueStack = <<>>
    /\ output = <<>>
    /\ outputColumn = 0
    /\ errors = <<>>
    /\ \E command \in commands : control = <<Loaded(command)>>
    /\ result = "none"
    /\ pc = "run"
    /\ steps = 0
    /\ haltExecuted = FALSE

\* `$F(haystack,needle)` or `$F(haystack,needle,findStart)` on literals;
\* findStart is 0 for an absent third argument.
FindBuiltin(haystack, needle, findStart) ==
    [kind |-> "FindBuiltin", haystack |-> haystack, needle |-> needle,
     findStart |-> findStart]

\* The loop of interpretFindBuiltin at index i (0-based) with matchProgress.
RECURSIVE FindLoop(_, _, _, _)
FindLoop(haystack, needle, i, matchProgress) ==
    IF i >= Len(haystack) THEN 0
    ELSE IF haystack[i + 1] # needle[matchProgress + 1]
    THEN IF matchProgress > 0
         THEN FindLoop(haystack, needle, i, 0)
         ELSE FindLoop(haystack, needle, i + 1, 0)
    ELSE IF matchProgress + 1 >= Len(needle) THEN i + 1 + 1
    ELSE FindLoop(haystack, needle, i + 1, matchProgress + 1)

\* The index the loop starts from: with a third argument, the expression
\* evaluated for it is node.haystack.
FindStart(node) == Max(TextToNumber(node.haystack) - 1, 0)

\* The number interpretFindBuiltin pushes.
interpretFindBuiltin(node) ==
    IF node.needle = <<>> THEN 1
    ELSE FindLoop(node.haystack, node.needle,
                  IF node.findStart # 0 THEN FindStart(node) ELSE 0, 0)

\* interpretWrite on `w $F(...)`: the number is written in decimal.
WriteFind ==
    /\ Parsed1 /\ CanStep /\ steps = 0
    /\ Top.children[1].kind = "FindBuiltin"
    /\ LET value == interpretFindBuiltin(Top.children[1])
       IN /\ output' = Append(output, Numeral[value])
          /\ outputColumn' = outputColumn + NumeralLength(value)
    /\ steps' = steps + 1
    /\ UNCHANGED <<environmentStack, heap, valueStack, errors, control, result, pc,
                   haltExecuted>>

FindCommands ==
    {FindBuiltin(haystack, needle, findStart) :
        haystack \in Texts({"a", "b", "2"}, MaxText),
        needle \in Texts({"a", "b"}, MaxNeedle),
        findStart \in 0..MaxText}

FindNext == WriteFind \/ TagReturn

FindSpec == LoadedInit(FindCommands) /\ [][FindNext]_vars

\* `$E(target)`, `$E(target,a)` or `$E(target,a,b)` on literals: args are
\* the arguments after the target.
ExtractBuiltin(target, args) ==
    [kind |-> "ExtractBuiltin", target |-> target, args |-> args]

\* String.prototype.slice: a negative index counts from the end, and both
\* indices are clamped to the string.
SliceIndex(length, index) ==
    IF index < 0 THEN Max(length + index, 0) ELSE Min(index, length)
slice(text, start, end) ==
    IF SliceIndex(Len(text), start) >= SliceIndex(Len(text), end) THEN <<>>
    ELSE SubSeq(text, SliceIndex(Len(text), start) + 1, SliceIndex(Len(text), end))

getExtractionStart(node) == IF Len(node.args) >= 1 THEN node.args[1] - 1 ELSE 0
getExtractionEnd(node, start) == IF Len(node.args) >= 2 THEN node.args[2] ELSE start + 1

\* The string interpretExtractBuiltin pushes.
interpretExtractBuiltin(node) ==
    slice(node.target, getExtractionStart(node),
          getExtractionEnd(node, getExtractionStart(node)))

\* interpretWrite on `w $E(...)`.
WriteExtract ==
    /\ Parsed1 /\ CanStep /\ steps = 0
    /\ Top.children[1].kind = "ExtractBuiltin"
    /\ LET value == interpretExtractBuiltin(Top.children[1])
       IN /\ output' = Append(output, value)
          /\ outputColumn' = outputColumn + Len(value)
    /\ steps' = steps + 1
    /\ UNCHANGED <<environmentStack, heap, valueStack, errors, control, result, pc,
                   haltExecuted>>

\* The integers of the arguments: below, inside and beyond the string.
ExtractIntegers == (0 - 2)..(MaxText + 1)
ExtractCommands ==
    {ExtractBuiltin(target, args) :
        target \in Texts({"a", "b", "c"}, MaxText - 1),
        args \in {<<>>} \cup {<<a>> : a \in ExtractIntegers}
                 \cup (ExtractIntegers \X ExtractIntegers)}

ExtractNext == WriteExtract \/ TagReturn

ExtractSpec == LoadedInit(ExtractCommands) /\ [][ExtractNext]_vars

-----------------------------------------------------------------------------
(* $O *)

MaxOrderSteps == 8

\* The order of the keys of an array, as the test "order" shows it: the keys
\* 1, 2, 10 are visited as 1, 10, 2, the order of their code units.
KeyLess(a, b) == StringLess(CodeUnits(a), CodeUnits(b))

\* The keys an array holds.
KeysOf(hp, array) == {k \in Keys : hp[array].children[k] # Undef}

\* mArrayGetNextKey and mArrayGetPreviousKey: the key after (before) key in
\* the order of the keys, the first (last) key for the empty key, and the
\* empty key when there is none.
mArrayGetNextKey(hp, array, key) ==
    LET after == {k \in KeysOf(hp, array) : key = "" \/ KeyLess(key, k)}
    IN IF after = {} THEN ""
       ELSE CHOOSE k \in after : \A other \in after : k = other \/ KeyLess(k, other)
mArrayGetPreviousKey(hp, array, key) ==
    LET before == {k \in KeysOf(hp, array) : key = "" \/ KeyLess(k, key)}
    IN IF before = {} THEN ""
       ELSE CHOOSE k \in before : \A other \in before : k = other \/ KeyLess(other, k)

ExpectedDirection == "Expected 1 or -1 for order builtin's direction argument"

\* interpretOrderBuiltin on `$O(name(subscript),direction)`, subscript a
\* variable without subscripts and direction a number literal: kind "ok" and
\* the key pushed, or the failure.
interpretOrderBuiltin(env, hp, name, subscript, direction) ==
    IF direction \notin {1, 0 - 1}
    THEN [kind |-> "error", value |-> "", message |-> ExpectedDirection]
    ELSE LET reference == getVariableReference(env, hp, name, <<>>, FALSE)
             finalSubscript == interpretVariable(env, hp, subscript, <<>>)
         IN IF reference.kind \notin {"EnvironmentReference", "ArrayReference"}
            THEN [kind |-> reference.kind, value |-> "", message |-> VariableDoesNotExist]
            ELSE IF finalSubscript.kind # "ok"
            THEN [kind |-> finalSubscript.kind, value |-> "",
                  message |-> VariableDoesNotExist]
            ELSE IF getReferenceValue(reference).kind # "array"
            THEN [kind |-> "ok", value |-> "", message |-> ""]
            ELSE [kind |-> "ok", message |-> "",
                  value |-> IF direction < 0
                            THEN mArrayGetPreviousKey(hp, getReferenceValue(reference).a,
                                                      finalSubscript.value)
                            ELSE mArrayGetNextKey(hp, getReferenceValue(reference).a,
                                                  finalSubscript.value)]

\* interpretSet on `s p=$O(x(p),direction)`: the next key is stored in p.
SetOrder(direction) ==
    /\ Running /\ steps < MaxOrderSteps
    /\ LET next == interpretOrderBuiltin(environmentStack, heap, "x", "p", direction)
           r == setVariable(environmentStack, heap, "p", <<>>, Scalar(next.value))
       IN IF next.kind = "ok"
          THEN MergeOutcome(r.kind, r.env, r.hp, VariableDoesNotExist)
          ELSE MergeOutcome(next.kind, environmentStack, heap, next.message)
    /\ UNCHANGED <<valueStack, output, outputColumn, control, haltExecuted>>

OrderKeys == {"1", "2", "10", "a"}
OrderDirections == {1, 0 - 1, 0 - 2}

OrderNext ==
    \/ \E key \in OrderKeys : SetBeforeMerge("x", <<key>>, "v")
    \/ \E direction \in OrderDirections : SetOrder(direction)
    \/ TagReturn

OrderSpec == Init /\ [][OrderNext]_vars

-----------------------------------------------------------------------------
(* write with formatters *)

MaxWriteArguments == 4

\* The arguments of a write: `#`, `!`, `?left/right` and a string literal.
WriteArgument(kind, text, left, right) ==
    [kind |-> kind, text |-> text, left |-> left, right |-> right]
HashFormatter == WriteArgument("HashFormatter", <<>>, 0, 1)
ExclamationPointFormatter == WriteArgument("ExclamationPointFormatter", <<>>, 0, 1)
QuestionMarkFormatter(left, right) == WriteArgument("QuestionMarkFormatter", <<>>, left, right)
StringLiteral(text) == WriteArgument("StringLiteral", text, 0, 1)
WriteNode(args) == [kind |-> "Write", args |-> args]

\* Math.floor of left / right, right positive.
Floor(left, right) == left \div right

\* " ".repeat(n)
Repeat(n) == [i \in 1..n |-> " "]

\* The turn of `?`: the output is padded up to minColumn when it is short of it.
PadRetracting(out, column, minColumn) ==
    [output |-> IF column < minColumn THEN Append(out, Repeat(minColumn - column)) ELSE out,
     outputColumn |-> minColumn]
Pad(out, column, minColumn) ==
    IF column < minColumn
    THEN [output |-> Append(out, Repeat(minColumn - column)), outputColumn |-> minColumn]
    ELSE [output |-> out, outputColumn |-> column]

\* One turn of the loop of interpretWrite, on the argument arg.
WriteTurn(arg, out, column) ==
    CASE arg.kind = "HashFormatter" -> [output |-> <<>>, outputColumn |-> 0]
      [] arg.kind = "ExclamationPointFormatter" ->
           [output |-> Append(out, <<"\n">>), outputColumn |-> 0]
      [] arg.kind = "QuestionMarkFormatter" -> Pad(out, column, Floor(arg.left, arg.right))
      [] OTHER -> [output |-> Append(out, arg.text), outputColumn |-> column + Len(arg.text)]

\* interpretWrite at its argument steps + 1.
WriteArguments ==
    /\ Parsed1 /\ Running
    /\ Top.children[1].kind = "Write"
    /\ steps < Len(Top.children[1].args)
    /\ LET turn == WriteTurn(Top.children[1].args[steps + 1], output, outputColumn)
       IN /\ output' = turn.output
          /\ outputColumn' = turn.outputColumn
    /\ steps' = steps + 1
    /\ UNCHANGED <<environmentStack, heap, valueStack, errors, control, result, pc,
                   haltExecuted>>

\* interpretWrite returns Continue after its last argument and main ends.
WriteReturn ==
    /\ Parsed1
    /\ Top.children[1].kind = "Write"
    /\ steps = Len(Top.children[1].args)
    /\ TagReturn

FormatArguments ==
    {HashFormatter, ExclamationPointFormatter, StringLiteral(<<"a">>),
     StringLiteral(<<"a", "b">>)}
        \cup {QuestionMarkFormatter(left, 2) : left \in {0 - 3, 3}}
        \cup {QuestionMarkFormatter(left, 1) : left \in {0, 3}}
FormatCommands ==
    {WriteNode(args) : args \in UNION {[1..n -> FormatArguments] : n \in 1..MaxWriteArguments}}

FormatNext == WriteArguments \/ WriteReturn

FormatSpec == LoadedInit(FormatCommands) /\ [][FormatNext]_vars

-----------------------------------------------------------------------------
(* Claims about blocks, loops and conditionals *)

\* C13: a quit executed inside an argumentless-do block ends only that block:
\* interpretDoBlock returns Continue to the construct that holds the do, which
\* is then about to run its next command (the commands that follow the do).
C13_QuitEndsOnlyDoBlock ==
    [][(pc = "run" /\ Len(control) > 0 /\ Top.kind = "doblock" /\ result = "Quit")
        => (control' = Pop(control) /\ result' = "none" /\ pc' = "run")]_vars

\* A do block inside the main tag whose command has just returned Quit.
C13_QuitInDoBlock ==
    pc = "run" /\ Len(control) = 2 /\ Top.kind = "doblock" /\ result = "Quit"

\* C11: a quit executed in the body of a for ends the whole for: once a body
\* has returned Quit, the next step of the for is its return, with Continue,
\* to the enclosing block; no later sweep is entered.
C11_QuitEndsFor ==
    [][(InFor /\ Top.quit) => (control' = Pop(control) /\ result' = "none")]_vars

\* The scalar an expression of the for line has when the for begins.
ValueAtEntry(construct, node) ==
    IF node.kind = "lit" THEN node.s
    ELSE ScalarOf(heap, Binding(construct.atEntry, node.name))

StartOf(construct) == mValueToNumber(ValueAtEntry(construct, construct.node.parameters[1][1]))
StepOf(construct) == mValueToNumber(ValueAtEntry(construct, construct.node.parameters[1][2]))
LimitOf(construct) == mValueToNumber(ValueAtEntry(construct, construct.node.parameters[1][3]))

\* v is not past the limit l for step s.
NotPast(s, v, l) == (s >= 0 /\ v <= l) \/ (s < 0 /\ v >= l)

\* In `for x=a:s:l` whose body neither quits nor assigns x, the k-th run of
\* the body is entered with x = a+(k-1)s, a value not past l, and the sweep
\* has ended only if a+ns is past l, n being the runs made; a, s and l are
\* the values the three expressions had when the for began.
CountedLoopRuns ==
    (InFor /\ Top.node \in CountedLoops) =>
        LET a == StartOf(Top)
            s == StepOf(Top)
            l == LimitOf(Top)
        IN /\ \A k \in 1..Len(Top.ran) :
                 /\ Top.ran[k] = ToString(a + (k - 1) * s)
                 /\ NotPast(s, a + (k - 1) * s, l)
           /\ Top.index > 1 => ~NotPast(s, a + Len(Top.ran) * s, l)

CountedLoopEntered == InFor /\ Top.node \in CountedLoops /\ StepOf(Top) # 0

\* C12: `for v=a:s:l` runs its body exactly for v = a, a+s, ... while v is
\* not past l, the test preceding every run, with a, s, l evaluated once; and
\* for s # 0 the for returns.
C12_CountedLoop == []CountedLoopRuns /\ (CountedLoopEntered ~> ~InFor)

\* `s p=3 f x=1:1:p w x s p=0` has ended after three runs of its body.
C12_ThreeRuns ==
    /\ InFor /\ Top.node \in CountedLoops /\ Top.index > 1
    /\ Top.node.parameters[1][3] = Var("p", <<>>)
    /\ Len(Top.node.children) = 2
    /\ Top.ran = <<"1", "2", "3">>

\* The scalar a condition has in the current state.
ConditionValue(node) ==
    IF node.kind = "lit" THEN node.s
    ELSE ScalarOf(heap, Binding(environmentStack, node.name))

SomeZero(conditions) ==
    \E i \in 1..Len(conditions) : mValueToNumber(ConditionValue(conditions[i])) = 0

TestOf(env) == env[1].vars["$TEST"]

TestOnlyInFrame0 ==
    \A i \in 2..Len(environmentStack) :
        environmentStack[i].hole \/ environmentStack[i].vars["$TEST"] = Undef

\* C14: `if c1,...,cn` sets $TEST in frame 0 to 0 and does not enter its body
\* when some ci is zero, and otherwise sets it to 1 and enters the body; else
\* enters its body exactly when $TEST of frame 0 is unset or 0; no frame
\* above frame 0 ever holds $TEST.
C14_IfElseTest ==
    [][/\ \A conditions \in IfCommands :
            If(conditions) =>
                IF SomeZero(conditions)
                THEN TestOf(environmentStack') = Number(0) /\ control' = control
                ELSE /\ TestOf(environmentStack') = Number(1)
                     /\ control' = Append(control, Children("if"))
       /\ Else => (control' = Append(control, Children("else"))
                     <=> TestOf(environmentStack) \in {Undef, Number(0)})
       /\ TestOnlyInFrame0 /\ TestOnlyInFrame0']_vars

\* The body of an else is being run under a `new` frame, $TEST being 0.
C14_ElseBodyUnderNewFrame ==
    /\ pc = "run" /\ Len(control) = 2 /\ Top.kind = "children" /\ Top.name = "else"
    /\ Len(environmentStack) >= 2
    /\ TestOf(environmentStack) = Number(0)

-----------------------------------------------------------------------------
(* Claims about expressions *)

Written == Parsed1 /\ steps = 1
Text(token) == token.value.s
ToNumber(token) == mValueToNumber(token.value.s)
Shown(b) == <<IF b THEN "1" ELSE "0">>

\* C15: `a=b` is 1 exactly when the string forms of a and b are equal, a
\* number and the string that spells it included.
C15_EqualsComparesStrings ==
    \A a \in Operands, b \in Operands :
        (Written /\ Top.line = Line2(a, "Equals", b))
            => output = Shown(Text(a) = Text(b))

\* C16: `a<b` is 1 exactly when toNumber(a) < toNumber(b), and `a>b` exactly
\* when toNumber(a) > toNumber(b), strings included.
C16_ComparesNumerically ==
    \A a \in Operands, b \in Operands :
        /\ (Written /\ Top.line = Line2(a, "LessThan", b))
               => output = Shown(ToNumber(a) < ToNumber(b))
        /\ (Written /\ Top.line = Line2(a, "GreaterThan", b))
               => output = Shown(ToNumber(a) > ToNumber(b))

Operand(token) == Literal(token.kind, token.value)
Binary(op, left, right) == BinaryOpNode(BinaryOpOf(op, FALSE), FALSE, left, right)
Unary(u, right) == UnaryOpNode(UnaryOpOf(u), right)
Apply(op, left, right) == interpretBinaryOp(BinaryOpOf(op, FALSE), FALSE, left, right)
ApplyUnary(u, right) == interpretUnaryOp(UnaryOpOf(u), right)

\* The tree of the written line is node and its value was written.
WrittenAs(node, value) == Top.children = <<node>> /\ output = <<value.s>>

\* C17: `a op1 b op2 c` is parsed and evaluated as `(a op1 b) op2 c`, a unary
\* operator applies to the primary after it before any binary operator does,
\* and parentheses regroup.
C17_LeftToRight ==
    Written =>
        /\ \A a \in SmallNumbers, b \in SmallNumbers, c \in SmallNumbers,
              op1 \in BinaryOps, op2 \in BinaryOps :
              /\ Top.line = Line3(a, op1, b, op2, c) =>
                     WrittenAs(Binary(op2, Binary(op1, Operand(a), Operand(b)), Operand(c)),
                               Apply(op2, Apply(op1, a.value, b.value), c.value))
              /\ Top.line = LineParen(a, op1, b, op2, c) =>
                     WrittenAs(Binary(op1, Operand(a), Binary(op2, Operand(b), Operand(c))),
                               Apply(op1, a.value, Apply(op2, b.value, c.value)))
        /\ \A u \in UnaryOps, a \in SmallNumbers, b \in SmallNumbers,
              op \in ComparisonOps \cup ArithmeticOps :
              /\ Top.line = LineUnaryLeft(u, a, op, b) =>
                     WrittenAs(Binary(op, Unary(u, Operand(a)), Operand(b)),
                               Apply(op, ApplyUnary(u, a.value), b.value))
              /\ Top.line = LineUnaryRight(a, op, u, b) =>
                     WrittenAs(Binary(op, Operand(a), Unary(u, Operand(b))),
                               Apply(op, a.value, ApplyUnary(u, b.value)))

\* `1+2*2` wrote 6, `1+(2*2)` would write 5.
C17_SumThenProduct ==
    /\ Written
    /\ Top.line = Line3(NumberToken(1), "Plus", NumberToken(2), "Asterisk", NumberToken(2))
    /\ output = <<"6">>

-----------------------------------------------------------------------------
(* Claims about the parser *)

CommandParsed == Len(control) = 1 /\ "nameToken" \in DOMAIN Top

\* The body parsers were reached: the post-condition, if any, was parsed and
\* whitespace follows the name.
Dispatched ==
    /\ CommandParsed
    /\ Top.condition # "failed"
    /\ errors # <<"Expected space between command and arguments">>

\* The variants of whose name the lower-cased text is a prefix.
Matching(text) ==
    {i \in 1..Len(commandBodyVariants) : toLowerCase(text) \in Prefixes(commandBodyVariants[i])}
FirstMatching(text) == CHOOSE i \in Matching(text) : \A j \in Matching(text) : i <= j

\* C18: the parser called for an identifier is that of the first name it is
\* a prefix of and no other parser is called; a command that is parsed has
\* the body of that parser; an identifier that is a prefix of no name calls
\* no parser and reports "Unrecognized command name".
C18_FirstPrefixMatch ==
    Dispatched =>
        IF Matching(Top.nameToken) = {}
        THEN /\ Top.called = <<>>
             /\ errors = <<"Unrecognized command name">>
        ELSE /\ Top.called = <<commandBodyVariants[FirstMatching(Top.nameToken)]>>
             /\ errors # <<"Unrecognized command name">>
             /\ errors = <<>> =>
                    Top.body = commandBodyVariants[FirstMatching(Top.nameToken)]

\* `WRite` was parsed as a write.
C18_UpperCaseWrite ==
    /\ Dispatched
    /\ Top.nameToken = <<"W", "R", "i", "t", "e">>
    /\ Top.body = commandBodyVariants[1]
    /\ Top.called = <<commandBodyVariants[1]>>
    /\ errors = <<>>

Faulty(line) == line.tokens \in BadTokens
FaultyLines(lines) == {i \in 1..Len(lines) : Faulty(lines[i])}

\* C19: after a parse error on one line the lines after it are still parsed:
\* every faulty line has its error reported, and the command and the tag of
\* every sound line are in the tree.
C19_ErrorsAccumulate ==
    ProgramParsed =>
        /\ Len(errors) = Cardinality(FaultyLines(Top.lines))
        /\ Len(Top.ast.children) =
               Len(Top.lines) - Cardinality(FaultyLines(Top.lines))
        /\ \A i \in 1..Len(Top.lines) :
               (~Faulty(Top.lines[i]) /\ Top.lines[i].tag # "")
                   => \E tag \in Top.ast.tags : tag.name = Top.lines[i].tag

-----------------------------------------------------------------------------
(* Claims about merge *)

\* The subscript lists below a node, to depth 2.
PathsBelow == {<<"a">>, <<"b">>, <<"a", "a">>, <<"a", "b">>, <<"b", "a">>, <<"b", "b">>}

\* The slot and the text of name(keys) before and after the step.
SlotBefore(v, path) == Slot(environmentStack, heap, v.name, v.keys \o path)
SlotAfter(v, path) == Slot(environmentStack', heap', v.name, v.keys \o path)
TextBefore(v, path) == ScalarOf(heap, SlotBefore(v, path))
TextAfter(v, path) == ScalarOf(heap', SlotAfter(v, path))

\* src(path) is a leaf: it is set and has no child.
IsLeaf(v, path) ==
    /\ SlotBefore(v, path) # Undef
    /\ \A k \in Keys : SlotBefore(v, Append(path, k)) = Undef

\* C20: after a merge that is not rejected, dst reads v at every leaf
\* src(path)=v, and every key under dst that is not under src, at any depth,
\* reads what it read before.
C20_MergeKeepsOtherKeys ==
    [][\A c \in MergeCommands :
          (Merge(c[1], c[2]) /\ result' = "none") =>
              \A path \in PathsBelow :
                  /\ IsLeaf(c[2], path) => TextAfter(c[1], path) = TextBefore(c[2], path)
                  /\ (SlotBefore(c[1], path) # Undef /\ SlotBefore(c[2], path) = Undef)
                         => TextAfter(c[1], path) = TextBefore(c[1], path)]_vars

\* One subscript list is a prefix of the other (or they are equal).
IsPrefix(short, long) ==
    Len(short) <= Len(long) /\ SubSeq(long, 1, Len(short)) = short
Overlapping(dst, src) ==
    dst.name = src.name /\ (IsPrefix(dst.keys, src.keys) \/ IsPrefix(src.keys, dst.keys))
Rejected == CannotMergeOverlapping \in {errors[i] : i \in 1..Len(errors)}

\* A merge is rejected exactly when its variables overlap, and a rejected
\* merge records the error, returns Halt and leaves every frame and every
\* array as it was.
MergeRejection ==
    \A c \in MergeCommands :
        Merge(c[1], c[2]) =>
            /\ (errors' = Append(errors, CannotMergeOverlapping)) <=> Overlapping(c[1], c[2])
            /\ Overlapping(c[1], c[2]) =>
                   /\ result' = "Halt"
                   /\ environmentStack' = environmentStack
                   /\ heap' = heap

\* C21: a merge is rejected exactly when dst and src overlap; the rejection
\* records an error and changes no variable, and execution halts: no later
\* command runs.
C21_OverlapRejected ==
    [][/\ MergeRejection
       /\ Rejected => (steps' = steps /\ OutputText' = OutputText)]_vars

\* The rejection itself, without what runs afterwards.
C21_RejectionOnly == [][MergeRejection]_vars

-----------------------------------------------------------------------------
(* Claims about the builtins *)

\* The positions (1-based) from start on at which needle occurs in haystack.
Occurrences(haystack, needle, start) ==
    {p \in Max(start, 1)..(Len(haystack) - Len(needle) + 1) :
        SubSeq(haystack, p, p + Len(needle) - 1) = needle}

\* The reference search: the position just after the first occurrence.
Find(haystack, needle, start) ==
    IF needle = <<>> THEN 1
    ELSE IF Occurrences(haystack, needle, start) = {} THEN 0
    ELSE (CHOOSE p \in Occurrences(haystack, needle, start) :
              \A q \in Occurrences(haystack, needle, start) : p <= q) + Len(needle)

WroteCommand(kind) == Parsed1 /\ steps = 1 /\ Top.children[1].kind = kind

\* C22: $F(hay,needle[,start]) is the position just after the first
\* occurrence of needle at or after start, 0 without one, 1 for an empty
\* needle.
C22_FindIsSubstringSearch ==
    WroteCommand("FindBuiltin") =>
        output = <<Numeral[Find(Top.children[1].haystack, Top.children[1].needle,
                                Top.children[1].findStart)]>>

\* The same for searches without a third argument.
C22_FindFromTheStart ==
    (WroteCommand("FindBuiltin") /\ Top.children[1].findStart = 0) =>
        output = <<Numeral[Find(Top.children[1].haystack, Top.children[1].needle, 1)]>>

\* The code units of s at positions lo..hi, clamped to the string.
Clamped(s, lo, hi) ==
    IF Max(lo, 1) > Min(hi, Len(s)) THEN <<>> ELSE SubSeq(s, Max(lo, 1), Min(hi, Len(s)))

\* What the claim gives for $E(s), $E(s,n) and $E(s,a,b).
Extract(s, args) ==
    CASE Len(args) = 0 -> Clamped(s, 1, 1)
      [] Len(args) = 1 -> Clamped(s, args[1], args[1])
      [] OTHER -> Clamped(s, args[1], args[2])

\* C23: $E(s) is the first code unit, $E(s,n) the n-th or empty when n is
\* outside 1..$L(s), $E(s,a,b) the code units at max(a,1)..min(b,$L(s)).
C23_ExtractIsClamped ==
    WroteCommand("ExtractBuiltin") =>
        output = <<Extract(Top.children[1].target, Top.children[1].args)>>

\* The same for arguments that are all at least 1.
C23_ExtractFromPositive ==
    (/\ WroteCommand("ExtractBuiltin")
     /\ \A i \in 1..Len(Top.children[1].args) : Top.children[1].args[i] >= 1)
        => output = <<Extract(Top.children[1].target, Top.children[1].args)>>

\* M collation: numeric keys first, by value, then the others by code unit.
IsNumericKey(k) == k \in {"1", "2", "10"}
Collates(a, b) ==
    IF IsNumericKey(a) /\ IsNumericKey(b) THEN NumeralValue[a] < NumeralValue[b]
    ELSE IF IsNumericKey(a) # IsNumericKey(b) THEN IsNumericKey(a)
    ELSE StringLess(CodeUnits(a), CodeUnits(b))

\* The keys of x, and the key that follows key among them in M collation
\* order, forwards or backwards; "" at the end.
KeysOfX ==
    IF environmentStack[1].vars["x"].kind = "array"
    THEN KeysOf(heap, environmentStack[1].vars["x"].a)
    ELSE {}
Following(key, forwards) ==
    LET beyond == {k \in KeysOfX :
                      key = "" \/ (IF forwards THEN Collates(key, k) ELSE Collates(k, key))}
    IN IF beyond = {} THEN ""
       ELSE CHOOSE k \in beyond :
                \A other \in beyond :
                    k = other \/ (IF forwards THEN Collates(k, other) ELSE Collates(other, k))
KeyNow == ScalarOf(heap, environmentStack[1].vars["p"])

\* C24: each step of an iteration with $O moves to the next key in M
\* collation order (the previous one with direction -1) and to the empty key
\* after the last, so every key is visited once, 1, 2, 10 in that order.
C24_OrderIsCollation ==
    [][\A direction \in {1, 0 - 1} :
          SetOrder(direction) =>
              environmentStack'[1].vars["p"] = Scalar(Following(KeyNow, direction = 1))]_vars

-----------------------------------------------------------------------------
(* Claims about kill *)

\* What `kill name(keys)` leaves behind: without keys the name is gone from
\* the topmost frame that binds it and every other frame and name is as
\* before; with keys the child, and with it what is below it, is gone from
\* its parent node, and every frame and every other node and child is as
\* before.  No error is recorded and execution continues.
Killed(name, keys) ==
    /\ pc' = "run" /\ result' = "none" /\ errors' = errors
    /\ IF keys = <<>>
       THEN /\ heap' = heap
            /\ environmentStack' =
                   [environmentStack EXCEPT
                      ![WriteFrame(environmentStack, name)].vars[name] = Undef]
       ELSE LET parent == Slot(environmentStack, heap, name, SubSeq(keys, 1, Len(keys) - 1))
            IN /\ environmentStack' = environmentStack
               /\ Slot(environmentStack', heap', name, keys) = Undef
               /\ heap' = IF parent.kind = "array"
                          THEN [heap EXCEPT ![parent.a].children[keys[Len(keys)]] = Undef]
                          ELSE heap

\* C25: `kill x` deletes x from the topmost frame that binds it only,
\* `kill x(k...)` deletes that child and its subtree only, and killing what
\* does not exist changes nothing, records no error and lets execution go on.
C25_KillDeletesOneBinding ==
    [][\A c \in KillCommands : Kill(c.name, c.keys) => Killed(c.name, c.keys)]_vars

\* C25 fails only where the scan meets a hole.
KillOnFrames ==
    [][\A c \in KillCommands :
          (NoHoles(environmentStack) /\ Kill(c.name, c.keys)) => Killed(c.name, c.keys)]_vars

-----------------------------------------------------------------------------
(* Claims about write *)

\* Everything written, as one string.
RECURSIVE Joined(_)
Joined(out) == IF out = <<>> THEN <<>> ELSE out[1] \o Joined(Tail(out))

\* The code units of text after its last line break.
RECURSIVE SinceBreak(_, _)
SinceBreak(text, i) ==
    IF i = 0 \/ text[i] = "\n" THEN 0 ELSE 1 + SinceBreak(text, i - 1)

\* The greatest integer that is at most left / right.
Whole(left, right) ==
    CHOOSE n \in (0 - 8)..8 : n * right <= left /\ (n + 1) * right > left

WriteArgumentNow == Top.children[1].args[steps + 1]

\* C26: `?n` leaves the column at max(previous column, floor(n)), appends
\* spaces only and removes nothing; after every write argument the column is
\* the number of code units appended since the last `!` or `#`; `#` empties
\* the output.
C26_WriteNeverRetracts ==
    [][WriteArguments =>
          /\ outputColumn' = SinceBreak(Joined(output'), Len(Joined(output')))
          /\ WriteArgumentNow.kind = "QuestionMarkFormatter" =>
                 /\ outputColumn' =
                        Max(outputColumn, Whole(WriteArgumentNow.left, WriteArgumentNow.right))
                 /\ \E n \in 0..8 : Joined(output') = Joined(output) \o [i \in 1..n |-> " "]
          /\ WriteArgumentNow.kind = "HashFormatter" => output' = <<>>]_vars

\* A `?n` has come with the column beyond floor(n), after a string was written.
C26_ColumnBeyondMinimum ==
    /\ Parsed1 /\ Top.children[1].kind = "Write"
    /\ steps >= 2
    /\ Top.children[1].args[steps].kind = "QuestionMarkFormatter"
    /\ Top.children[1].args[steps - 1].kind = "StringLiteral"
    /\ outputColumn > Whole(Top.children[1].args[steps].left, Top.children[1].args[steps].right)

-----------------------------------------------------------------------------
(* Claims about calls *)

\* The calls of the model that pass `.name` for a name no frame binds.
UnboundReferenceCalls ==
    {c \in CallCommands :
        \E i \in 1..Len(c.args) :
            /\ c.args[i].kind = "ref"
            /\ FramesBinding(environmentStack, c.args[i].name) = {}}

\* C27: a call that passes `.name`, name bound in no frame, records an
\* error, is not executed, and execution halts.
C27_UnboundReferenceIsAnError ==
    [][\A c \in UnboundReferenceCalls :
          Call(c.name, c.args, c.hasReturnValue) =>
              /\ Len(errors') = Len(errors) + 1
              /\ control' = control
              /\ result' = "Halt"]_vars

\* What the code does with it on a stack without holes: the parameter is
\* bound to the empty string, no error is recorded and the tag is entered.
UnboundReferenceBindsEmpty ==
    [][\A c \in UnboundReferenceCalls :
          (NoHoles(environmentStack) /\ Call(c.name, c.args, c.hasReturnValue)) =>
              /\ errors' = errors
              /\ Len(control') = Len(control) + 1
              /\ result' = "none"
              /\ environmentStack'[Len(environmentStack')].vars[TagParams(c.name)[1]]
                     = Scalar("")]_vars

\* C28: the value stack stays balanced: a do block that returns Continue
\* leaves the depth as it was at its entry, and a write of `$$tag(...)`, which
\* pops the one value of the call, leaves the depth as it was at the call, also
\* when a `quit expr` ran inside a do block of the callee.
C28_ValueStackBalanced ==
    [][/\ (DoBlockReturn /\ result # "Halt") => Len(valueStack') = Top.valueLen
       /\ (CallReturn /\ Top.hasReturnValue) => Len(valueStack') = Top.valueLen]_vars

\* The value a `$$tag(...)` call hands to its write is the value of the quit
\* that ended the tag, and the empty string when the tag ended without one.
CallValueIsLastQuit ==
    [][(CallReturn /\ Top.hasReturnValue) =>
          output' = Append(output, IF Len(valueStack) = Top.valueLen
                                   THEN ""
                                   ELSE valueStack[Len(valueStack)])]_vars

\* The call `g("w",p)` of the tag g(p,q).
SecondArgumentNamesFirstParameter == CallNode("g", <<Lit("w"), Var("p", <<>>)>>, FALSE)

\* C29: the arguments of a call are evaluated in the caller's environment:
\* when g(p,q) is entered by `g("w",p)`, q holds the caller's value of p, not
\* the "w" that p was bound to for the call.
C29_ArgumentsSeeCallerOnly ==
    [][LET c == SecondArgumentNamesFirstParameter
       IN (Call(c.name, c.args, c.hasReturnValue) /\ Len(control') > Len(control)) =>
              environmentStack'[Len(environmentStack')].vars["q"]
                  = Scalar(ScalarOf(heap, Binding(environmentStack, "p")))]_vars

\* What the code does: q holds the value of the first argument.
LaterArgumentSeesParameter ==
    [][LET c == SecondArgumentNamesFirstParameter
       IN (Call(c.name, c.args, c.hasReturnValue) /\ Len(control') > Len(control)) =>
              environmentStack'[Len(environmentStack')].vars["q"] = Scalar("w")]_vars

-----------------------------------------------------------------------------
(* Claims about failures *)

\* A command has ended the run and it was no `halt`.
CommandFailed == result = "none" /\ result' = "Halt" /\ ~Halt

\* C30: a command that ends the run, other than `halt` and `quit`, records
\* an error, `set x("")=v` and a read of x("") included, and leaves the
\* store unchanged.
C30_NoSilentStop ==
    [][CommandFailed =>
          /\ Len(errors') > Len(errors)
          /\ environmentStack' = environmentStack
          /\ heap' = heap]_vars

\* The failures that record nothing are those of an empty subscript.
SilentOnlyOnEmptySubscript ==
    [][(CommandFailed /\ errors' = errors) =>
          \E c \in SetCommands : c.keys = <<"">> /\ Set(c.name, c.keys, c.s)]_vars

====
